---- MODULE Spec2Model ----
(***************************************************************************)
(* A model of the route planner of path-planner (src/unnamed/part_001):    *)
(* the road graph built by _preprocessData, and the A* search _planRoute   *)
(* with its helpers _neighbors, _distance, _insertIntoOpenSet and          *)
(* _reconstructPath.                                                       *)
(*                                                                         *)
(* Conventions.  JavaScript arrays are sequences; the source's indices are *)
(* 0-based and are kept 0-based in the model (element i of array a is      *)
(* a[i + 1]).  A JavaScript Map is a sequence of <<key, value>> pairs in   *)
(* insertion order, which is the order a Map iterates in.  A value that    *)
(* may be null is a record [isNull, arr].                                  *)
(*                                                                         *)
(* Coordinates.  node.long and node.lat are integers.  In the model one    *)
(* coordinate step stands for 10 degrees (10^8 decimicro-degrees), so that *)
(* the cosine factor of _distance differs from one latitude to the next;   *)
(* a distance is an integer number of thousandths of a step.               *)
(*                                                                         *)
(* Specifications.  Spec: the calls of _planRoute on a constructed graph.  *)
(* SpiralSpec: _spiralSearchWayId on a window.  LocateSpec: the locator    *)
(* _findWayNearLongLat with _findWayPosition.  RendererSpec: the handlers  *)
(* of the Renderer that locate, set the start and plan, and render_map.    *)
(* LoadSpec: init, from the fetched data to the calls of _planRoute.       *)
(* PointerSpec: the handlers of the PointerTracker.                        *)
(***************************************************************************)
EXTENDS Integers, Sequences, FiniteSets, TLC

\* Bounds of the model.
MaxWays == 2         \* a graph has 1..MaxWays ways, taken from WayPool
MaxBudget == 6       \* "max-path-nodes" is drawn from 0..MaxBudget
BudgetHorizon == 11  \* larger budgets that a call's budget is compared with
MaxSamples == 2      \* a way finder window holds at most MaxSamples way ids
MaxMisses == 3       \* the rasterizer answers up to MaxMisses queries of a call with an empty window

VARIABLES
    data,          \* the graph: [nodes, ways, node_to_way]
    pc,            \* position of _planRoute: "idle", "loop", "break", "done"
    start_node,    \* locals of _planRoute
    end_node,
    debug_paths,
    max_attempts,
    open_set,
    came_from,
    g_score,
    f_score,
    i,
    removed,       \* history: the nodes taken from the open set, in order
    inserted,      \* history: per member of the open set, the number of its insertion
    exit,          \* the return statement taken: "none", "null_args", "path", "frontier", "null"
    ret,           \* the returned value
    phase,         \* position of init: "fetched", "constructed", "failed"
    pixels,        \* the window _spiralSearchWayId is called with
    found,         \* [done, way_id]: whether it has run, and its result
    renderer,      \* the fields of the Renderer
    located,       \* history: the last call of _findWayNearLongLat on its own
    plan_call,     \* history: how the last call of _planRoute by a handler ended
    planned_mode,  \* history: the mode of the last call of _planRoute by a handler that returned
    frame,         \* whether a callback of requestAnimationFrame (render_map) is pending
    down_pointers, \* PointerTracker.down_pointers: the cached events
    pressed,       \* history: the pointers with a pointerdown and no later pointerup
    pointer_call   \* history: the last handler of the PointerTracker: for whom, how it ended

planVars == <<pc, start_node, end_node, debug_paths, max_attempts, open_set,
              came_from, g_score, f_score, i, removed, inserted, exit, ret>>

spiralVars == <<pixels, found>>

locateVars == <<renderer, located, plan_call, planned_mode, frame>>

pointerVars == <<down_pointers, pressed, pointer_call>>

vars == <<data, planVars, phase, spiralVars, locateVars, pointerVars>>

-----------------------------------------------------------------------------
\* JavaScript values

JsNull == [isNull |-> TRUE, arr |-> <<>>]

Arr(a) == [isNull |-> FALSE, arr |-> a]

\* Map.has, Map.get, Map.set on a sequence of <<key, value>> pairs
MapHas(m, k) == \E j \in 1..Len(m) : m[j][1] = k

MapGet(m, k) == m[CHOOSE j \in 1..Len(m) : m[j][1] = k][2]

MapSet(m, k, v) ==
    IF MapHas(m, k)
    THEN [j \in 1..Len(m) |-> IF m[j][1] = k THEN <<k, v>> ELSE m[j]]
    ELSE Append(m, <<k, v>>)

\* Array.prototype.splice(idx, 0, val)
Splice(a, idx, val) == SubSeq(a, 1, idx) \o <<val>> \o SubSeq(a, idx + 1, Len(a))

Abs(n) == IF n < 0 THEN -n ELSE n

\* Infinity of line 449: larger than every score of the model
Infinity == 999999999

-----------------------------------------------------------------------------
\* Arithmetic of _distance

\* Math.cos(lat * 3.1415962 / 180) in thousandths, for lat = 0, 10, 20, 30 degrees
CosTable == <<1000, 985, 940, 866>>

CosMilli(lat) == CosTable[lat + 1]

RECURSIVE SqrtSearch(_, _, _)
SqrtSearch(n, lo, hi) ==
    IF hi - lo <= 1 THEN lo
    ELSE LET mid == (lo + hi) \div 2
         IN IF mid * mid <= n THEN SqrtSearch(n, mid, hi) ELSE SqrtSearch(n, lo, mid)

\* Math.sqrt, rounded down (the search stays below 2^31)
Sqrt(n) == SqrtSearch(n, 0, IF n < 46340 THEN n + 1 ELSE 46340)

_distance(n1, n2) ==
    LET long_dist == (n2.long - n1.long) * CosMilli(n2.lat)
        lat_dist == (n2.lat - n1.lat) * 1000
    IN Sqrt(long_dist * long_dist + lat_dist * lat_dist)

-----------------------------------------------------------------------------
\* The graph

Node(d, node_id) == d.nodes[node_id + 1]

Way(d, way_id) == d.ways[way_id + 1]

_nodeToLongLat(node) == <<node.long, node.lat>>

_nodeIdToLongLat(d, node_id) == _nodeToLongLat(Node(d, node_id))

\* the (way_id, i) pairs in the order the two loops of _preprocessData visit them
RECURSIVE WayPositions(_, _, _)
WayPositions(ways, way_id, k) ==
    IF way_id >= Len(ways) THEN <<>>
    ELSE IF k >= Len(ways[way_id + 1].nodes) THEN WayPositions(ways, way_id + 1, 0)
    ELSE <<(<<way_id, k>>)>> \o WayPositions(ways, way_id, k + 1)

\* a variant of _preprocessData that lists a way once per node: the first
\* position only
PreprocessFirstPositionOnly(nodes, ways) ==
    LET visited == WayPositions(ways, 0, 0)
        first(q) == \A k \in 0..(q[2] - 1) :
                        ways[q[1] + 1].nodes[k + 1] # ways[q[1] + 1].nodes[q[2] + 1]
        entry(node_id) ==
            LET list == SelectSeq(visited, LAMBDA q :
                            ways[q[1] + 1].nodes[q[2] + 1] = node_id /\ first(q))
            IN [defined |-> list # <<>>, list |-> list]
    IN [nodes |-> nodes,
        ways |-> ways,
        node_to_way |-> [n \in 1..Len(nodes) |-> entry(n - 1)]]

\* node_to_way: per node id, undefined or the pushed [way_id, i] pairs; the
\* array has data.nodes.length entries, and more when an entry beyond them is
\* assigned (line 482)
_preprocessData(nodes, ways) ==
    LET visited == WayPositions(ways, 0, 0)
        ids == {ways[visited[j][1] + 1].nodes[visited[j][2] + 1] : j \in 1..Len(visited)}
        length == IF \E id \in ids : id >= Len(nodes)
                  THEN (CHOOSE id \in ids : \A other \in ids : other <= id) + 1
                  ELSE Len(nodes)
        entry(node_id) ==
            LET list == SelectSeq(visited, LAMBDA p : ways[p[1] + 1].nodes[p[2] + 1] = node_id)
            IN [defined |-> list # <<>>, list |-> list]
    IN [nodes |-> nodes,
        ways |-> ways,
        node_to_way |-> [n \in 1..length |-> entry(n - 1)]]

\* _constructMapBuffers, called by the constructor of Renderer (line 610),
\* reads data.nodes[node_id].long for every node of every way (line 145): a
\* TypeError when a way has a node id without a node
MapBuffersThrow(d) ==
    \E w \in 1..Len(d.ways) : \E j \in 1..Len(d.ways[w].nodes) :
        d.ways[w].nodes[j] >= Len(d.nodes)

\* a variant of NeighborsOf without the "sub_id != 0" branch: successors only
RECURSIVE NeighborsForwardOnly(_, _, _)
NeighborsForwardOnly(d, list, k) ==
    IF k > Len(list) THEN <<>>
    ELSE LET way == Way(d, list[k][1])
             sub_id == list[k][2]
         IN (IF sub_id + 1 # Len(way.nodes) THEN <<way.nodes[sub_id + 2]>> ELSE <<>>)
            \o NeighborsForwardOnly(d, list, k + 1)

\* variants of NeighborsOf: without the "sub_id + 1 != way.nodes.length"
\* branch (predecessors only), and with the successor taken at way ends only
RECURSIVE NeighborsBackwardOnly(_, _, _)
NeighborsBackwardOnly(d, list, k) ==
    IF k > Len(list) THEN <<>>
    ELSE LET way == Way(d, list[k][1])
             sub_id == list[k][2]
         IN (IF sub_id # 0 THEN <<way.nodes[sub_id]>> ELSE <<>>)
            \o NeighborsBackwardOnly(d, list, k + 1)

RECURSIVE NeighborsAfterAtStartOnly(_, _, _)
NeighborsAfterAtStartOnly(d, list, k) ==
    IF k > Len(list) THEN <<>>
    ELSE LET way == Way(d, list[k][1])
             sub_id == list[k][2]
             after == IF sub_id = 0 THEN <<way.nodes[sub_id + 2]>> ELSE <<>>
             before == IF sub_id # 0 THEN <<way.nodes[sub_id]>> ELSE <<>>
         IN after \o before \o NeighborsAfterAtStartOnly(d, list, k + 1)

RECURSIVE NeighborsOf(_, _, _)
NeighborsOf(d, list, k) ==
    IF k > Len(list) THEN <<>>
    ELSE LET way_id == list[k][1]
             sub_id == list[k][2]
             way == Way(d, way_id)
             after == IF sub_id + 1 # Len(way.nodes) THEN <<way.nodes[sub_id + 2]>> ELSE <<>>
             before == IF sub_id # 0 THEN <<way.nodes[sub_id]>> ELSE <<>>
         IN after \o before \o NeighborsOf(d, list, k + 1)

\* threw: iterating an undefined node_to_way entry raises a TypeError
_neighbors(d, node_id) ==
    LET e == d.node_to_way[node_id + 1]
    IN IF e.defined
       THEN [threw |-> FALSE, list |-> NeighborsOf(d, e.list, 1)]
       ELSE [threw |-> TRUE, list |-> <<>>]

-----------------------------------------------------------------------------
\* The way finder window

WAY_FINDER_RES == 11

\* pixels, the Int32Array read back from the way finder frame buffer (4 values
\* per sample), is kept as the set of its <<index, value>> entries that differ
\* from -1, the value the buffer is cleared to
_pixelFromBuffer(px, x, y) ==
    LET idx == 4 * (y * WAY_FINDER_RES + x)
    IN IF \E e \in px : e[1] = idx
       THEN (CHOOSE e \in px : e[1] = idx)[2]
       ELSE -1

\* a variant of SpiralRows that reads the whole row lower_idx before the row
\* higher_idx
RECURSIVE RowLeftToRight(_, _, _, _)
RowLeftToRight(px, x, y, higher_idx) ==
    IF x > higher_idx THEN -1
    ELSE IF _pixelFromBuffer(px, x, y) # -1 THEN _pixelFromBuffer(px, x, y)
    ELSE RowLeftToRight(px, x + 1, y, higher_idx)

SpiralRowsOneByOne(px, x, lower_idx, higher_idx) ==
    IF RowLeftToRight(px, x, lower_idx, higher_idx) # -1
    THEN RowLeftToRight(px, x, lower_idx, higher_idx)
    ELSE RowLeftToRight(px, x, higher_idx, higher_idx)

\* the loop over x of one ring, from x on: -1 when it ends without a return
RECURSIVE SpiralRows(_, _, _, _)
SpiralRows(px, x, lower_idx, higher_idx) ==
    IF x > higher_idx THEN -1
    ELSE IF _pixelFromBuffer(px, x, lower_idx) # -1 THEN _pixelFromBuffer(px, x, lower_idx)
    ELSE IF _pixelFromBuffer(px, x, higher_idx) # -1 THEN _pixelFromBuffer(px, x, higher_idx)
    ELSE SpiralRows(px, x + 1, lower_idx, higher_idx)

\* the loop over y of one ring, from y on
RECURSIVE SpiralColumns(_, _, _, _)
SpiralColumns(px, y, lower_idx, higher_idx) ==
    IF y > higher_idx THEN -1
    ELSE IF _pixelFromBuffer(px, lower_idx, y) # -1 THEN _pixelFromBuffer(px, lower_idx, y)
    ELSE IF _pixelFromBuffer(px, higher_idx, y) # -1 THEN _pixelFromBuffer(px, higher_idx, y)
    ELSE SpiralColumns(px, y + 1, lower_idx, higher_idx)

\* a variant of SpiralRings that does not look at the center sample
SpiralRingsFromOne(px, center_val, dist) ==
    LET from == IF dist = 0 THEN 1 ELSE dist
        lower_idx == center_val - from
        higher_idx == center_val + from
    IN IF SpiralRows(px, lower_idx, lower_idx, higher_idx) # -1
       THEN SpiralRows(px, lower_idx, lower_idx, higher_idx)
       ELSE SpiralColumns(px, lower_idx, lower_idx, higher_idx)

\* the loop over dist, from dist on
RECURSIVE SpiralRings(_, _, _)
SpiralRings(px, center_val, dist) ==
    IF ~(dist < center_val + 1) THEN -1
    ELSE LET lower_idx == center_val - dist
             higher_idx == center_val + dist
             in_rows == SpiralRows(px, lower_idx, lower_idx, higher_idx)
             in_columns == SpiralColumns(px, lower_idx, lower_idx, higher_idx)
         IN IF in_rows # -1 THEN in_rows
            ELSE IF in_columns # -1 THEN in_columns
            ELSE SpiralRings(px, center_val, dist + 1)

_spiralSearchWayId(px) == SpiralRings(px, WAY_FINDER_RES \div 2, 0)

-----------------------------------------------------------------------------
\* The open set

\* a variant of InsertSearch biased towards the back: a tested member with an
\* equal score counts as less
RECURSIVE InsertSearchBiasedBack(_, _, _, _, _)
InsertSearchBiasedBack(os, f_scores, val_score, last_less, last_greater) ==
    IF last_greater - last_less > 1
    THEN LET test_idx == (last_less + last_greater) \div 2
             test_score == MapGet(f_scores, os[test_idx + 1])
         IN InsertSearchBiasedBack(os, f_scores, val_score,
                                   IF test_score <= val_score THEN test_idx ELSE last_less,
                                   IF test_score > val_score THEN test_idx ELSE last_greater)
    ELSE last_less

\* the while loop of _insertIntoOpenSet; indices are 0-based as in the source
RECURSIVE InsertSearch(_, _, _, _, _)
InsertSearch(os, f_scores, val_score, last_less, last_greater) ==
    IF last_greater - last_less > 1
    THEN LET test_idx == (last_less + last_greater) \div 2
             test_score == MapGet(f_scores, os[test_idx + 1])
         IN InsertSearch(os, f_scores, val_score,
                         IF test_score < val_score THEN test_idx ELSE last_less,
                         IF test_score >= val_score THEN test_idx ELSE last_greater)
    ELSE last_less

_insertIntoOpenSet(os, f_scores, val) ==
    LET pushed == IF Len(os) = 0 THEN Append(os, val) ELSE os
        last_less == InsertSearch(pushed, f_scores, MapGet(f_scores, val), 0, Len(pushed))
    IN Splice(pushed, last_less, val)

\* history of _insertIntoOpenSet: the members made so far are the s.i removed
\* ones and those of the open set; the new ones are numbered on from there and
\* put where the push and the splice put them
InsertionNumbers(s, f_scores, val) ==
    LET made == s.i + Len(s.open_set)
        pushed == IF Len(s.open_set) = 0 THEN Append(s.open_set, val) ELSE s.open_set
        numbers == IF Len(s.open_set) = 0 THEN <<made + 1>> ELSE s.inserted
        last_less == InsertSearch(pushed, f_scores, MapGet(f_scores, val), 0, Len(pushed))
    IN Splice(numbers, last_less, made + Len(pushed) - Len(s.open_set) + 1)

-----------------------------------------------------------------------------
\* The search

RECURSIVE ReconstructFrom(_, _, _, _)
ReconstructFrom(d, cf, current, total_path) ==
    IF MapHas(cf, current)
    THEN LET prev == MapGet(cf, current)
         IN ReconstructFrom(d, cf, prev, Append(total_path, _nodeIdToLongLat(d, prev)))
    ELSE total_path

\* a variant of _reconstructPath whose total_path starts empty
ReconstructPathWithoutTarget(d, cf, current) == ReconstructFrom(d, cf, current, <<>>)

_reconstructPath(d, cf, current) ==
    ReconstructFrom(d, cf, current, <<_nodeIdToLongLat(d, current)>>)

\* variants of the budget test: "<=" for "<"; "i + 1 <"; and a comparison of
\* the two values as decimal strings (max_attempts is the string of an input field)
BudgetAllowsInclusive(count, budget) == count <= budget

BudgetAllowsBelowLast(count, budget) == count + 1 < budget

RECURSIVE Digits(_)
Digits(n) == IF n < 10 THEN <<n>> ELSE Append(Digits(n \div 10), n % 10)

LexLess(a, b) ==
    \E k \in 1..Len(b) :
        /\ \A j \in 1..(k - 1) : j <= Len(a) /\ a[j] = b[j]
        /\ (k > Len(a) \/ a[k] < b[k])

BudgetAllowsLexicographic(count, budget) == LexLess(Digits(count), Digits(budget))

\* i < max_attempts (the value of "max-path-nodes", compared as a number)
BudgetAllows(count, budget) == count < budget

\* the condition of the while loop
LoopCondition(s) == Len(s.open_set) # 0 /\ BudgetAllows(s.i, s.max_attempts)

\* lines 419-429: the search state at the first test of the loop condition
SearchStart(d, sn, en, debug, budget) ==
    [pc |-> "loop", start_node |-> sn, end_node |-> en,
     debug_paths |-> debug, max_attempts |-> budget,
     open_set |-> <<sn>>,
     came_from |-> <<>>,
     g_score |-> <<(<<sn, 0>>)>>,
     f_score |-> <<(<<sn, _distance(Node(d, sn), Node(d, en))>>)>>,
     i |-> 0, removed |-> <<>>, inserted |-> <<1>>, exit |-> "none", ret |-> JsNull]

\* a variant of PlanEntry that reduces a position to the nearer endpoint of
\* its segment: nodes[segment + 1] for a factor of 0.5 and more
PlanEntryNearestEndpoint(d, start, end, debug, budget) ==
    IF start.isNull \/ end.isNull
    THEN [pc |-> "done", start_node |-> -1, end_node |-> -1,
          debug_paths |-> debug, max_attempts |-> 0,
          open_set |-> <<>>, came_from |-> <<>>, g_score |-> <<>>,
          f_score |-> <<>>, i |-> 0, removed |-> <<>>, inserted |-> <<>>,
          exit |-> "null_args", ret |-> JsNull]
    ELSE SearchStart(d,
             Way(d, start.arr[1]).nodes[start.arr[2] + (IF start.arr[3] >= 5 THEN 2 ELSE 1)],
             Way(d, end.arr[1]).nodes[end.arr[2] + (IF end.arr[3] >= 5 THEN 2 ELSE 1)],
             debug, budget)

\* a variant of PlanEntry whose early return gives an empty array, not null,
\* in FRONTIER mode
PlanEntryEmptyFrontier(d, start, end, debug, budget) ==
    IF start.isNull \/ end.isNull
    THEN [pc |-> "done", start_node |-> -1, end_node |-> -1,
          debug_paths |-> debug, max_attempts |-> 0,
          open_set |-> <<>>, came_from |-> <<>>, g_score |-> <<>>,
          f_score |-> <<>>, i |-> 0, removed |-> <<>>, inserted |-> <<>>,
          exit |-> "null_args", ret |-> IF debug THEN Arr(<<>>) ELSE JsNull]
    ELSE SearchStart(d, Way(d, start.arr[1]).nodes[start.arr[2] + 1],
                        Way(d, end.arr[1]).nodes[end.arr[2] + 1], debug, budget)

\* lines 412-417: the early return for a null argument, else the two positions
\* reduced to way.nodes[segment]
PlanEntry(d, start, end, debug, budget) ==
    IF start.isNull \/ end.isNull
    THEN [pc |-> "done", start_node |-> -1, end_node |-> -1,
          debug_paths |-> debug, max_attempts |-> 0,
          open_set |-> <<>>, came_from |-> <<>>, g_score |-> <<>>,
          f_score |-> <<>>, i |-> 0, removed |-> <<>>, inserted |-> <<>>,
          exit |-> "null_args", ret |-> JsNull]
    ELSE SearchStart(d, Way(d, start.arr[1]).nodes[start.arr[2] + 1],
                        Way(d, end.arr[1]).nodes[end.arr[2] + 1], debug, budget)

\* a variant of ExpandNeighbor that leaves the f-score of a node that has one
\* as it is when the node's g-score is lowered
ExpandNeighborStaleFScore(d, s, item, neighbor) ==
    LET tentative_g_score == MapGet(s.g_score, item) + _distance(Node(d, item), Node(d, neighbor))
        g1 == IF MapHas(s.g_score, neighbor) = FALSE
              THEN MapSet(s.g_score, neighbor, Infinity)
              ELSE s.g_score
    IN IF tentative_g_score < MapGet(g1, neighbor)
       THEN LET f2 == IF MapHas(s.f_score, neighbor) THEN s.f_score
                      ELSE MapSet(s.f_score, neighbor,
                                  tentative_g_score + _distance(Node(d, neighbor), Node(d, s.end_node)))
            IN [s EXCEPT !.came_from = MapSet(@, neighbor, item),
                         !.g_score = MapSet(g1, neighbor, tentative_g_score),
                         !.f_score = f2,
                         !.open_set = _insertIntoOpenSet(@, f2, neighbor),
                         !.inserted = InsertionNumbers(s, f2, neighbor)]
       ELSE [s EXCEPT !.g_score = g1]

\* a variant of ExpandNeighbor with "<=" for "<" in the test of line 452
ExpandNeighborOrEqual(d, s, item, neighbor) ==
    LET tentative_g_score == MapGet(s.g_score, item) + _distance(Node(d, item), Node(d, neighbor))
        g1 == IF MapHas(s.g_score, neighbor) = FALSE
              THEN MapSet(s.g_score, neighbor, Infinity)
              ELSE s.g_score
    IN IF tentative_g_score <= MapGet(g1, neighbor)
       THEN LET f2 == MapSet(s.f_score, neighbor,
                             tentative_g_score + _distance(Node(d, neighbor), Node(d, s.end_node)))
            IN [s EXCEPT !.came_from = MapSet(@, neighbor, item),
                         !.g_score = MapSet(g1, neighbor, tentative_g_score),
                         !.f_score = f2,
                         !.open_set = _insertIntoOpenSet(@, f2, neighbor),
                         !.inserted = InsertionNumbers(s, f2, neighbor)]
       ELSE [s EXCEPT !.g_score = g1]

\* a variant of ExpandNeighbor without the test of line 452
ExpandNeighborAlways(d, s, item, neighbor) ==
    LET tentative_g_score == MapGet(s.g_score, item) + _distance(Node(d, item), Node(d, neighbor))
        f2 == MapSet(s.f_score, neighbor,
                     tentative_g_score + _distance(Node(d, neighbor), Node(d, s.end_node)))
    IN [s EXCEPT !.came_from = MapSet(@, neighbor, item),
                 !.g_score = MapSet(@, neighbor, tentative_g_score),
                 !.f_score = f2,
                 !.open_set = _insertIntoOpenSet(@, f2, neighbor),
                 !.inserted = InsertionNumbers(s, f2, neighbor)]

\* lines 444-458: one neighbor of the expanded item
ExpandNeighbor(d, s, item, neighbor) ==
    LET neighbor_distance == _distance(Node(d, item), Node(d, neighbor))
        tentative_g_score == MapGet(s.g_score, item) + neighbor_distance
        g1 == IF MapHas(s.g_score, neighbor) = FALSE
              THEN MapSet(s.g_score, neighbor, Infinity)
              ELSE s.g_score
    IN IF tentative_g_score < MapGet(g1, neighbor)
       THEN LET f2 == MapSet(s.f_score, neighbor,
                             tentative_g_score + _distance(Node(d, neighbor), Node(d, s.end_node)))
            IN [s EXCEPT !.came_from = MapSet(@, neighbor, item),
                         !.g_score = MapSet(g1, neighbor, tentative_g_score),
                         !.f_score = f2,
                         !.open_set = _insertIntoOpenSet(@, f2, neighbor),
                         !.inserted = InsertionNumbers(s, f2, neighbor)]
       ELSE [s EXCEPT !.g_score = g1]

RECURSIVE ExpandAll(_, _, _, _, _)
ExpandAll(d, s, item, nbrs, k) ==
    IF k > Len(nbrs) THEN s
    ELSE ExpandAll(d, ExpandNeighbor(d, s, item, nbrs[k]), item, nbrs, k + 1)

\* variants of AfterLoop: one that returns an empty array, not null, when the
\* budget ended the loop; one whose frontier is the open set
AfterLoopReportsBudget(d, s) ==
    IF s.debug_paths = TRUE
    THEN [s EXCEPT !.pc = "done", !.exit = "frontier",
                   !.ret = Arr([j \in 1..Len(s.f_score) |->
                                    _nodeToLongLat(Node(d, s.f_score[j][1]))])]
    ELSE [s EXCEPT !.pc = "done", !.exit = "null",
                   !.ret = IF s.i < s.max_attempts THEN JsNull ELSE Arr(<<>>)]

AfterLoopOpenSetOnly(d, s) ==
    IF s.debug_paths = TRUE
    THEN [s EXCEPT !.pc = "done", !.exit = "frontier",
                   !.ret = Arr([j \in 1..Len(s.open_set) |->
                                    _nodeToLongLat(Node(d, s.open_set[j]))])]
    ELSE [s EXCEPT !.pc = "done", !.exit = "null", !.ret = JsNull]

\* lines 463-471: the return after the loop
AfterLoop(d, s) ==
    IF s.debug_paths = TRUE
    THEN [s EXCEPT !.pc = "done", !.exit = "frontier",
                   !.ret = Arr([j \in 1..Len(s.f_score) |->
                                    _nodeToLongLat(Node(d, s.f_score[j][1]))])]
    ELSE [s EXCEPT !.pc = "done", !.exit = "null", !.ret = JsNull]

\* a variant of LoopIteration that, in FRONTIER mode, expands the end node
\* before it breaks out of the loop
LoopIterationExpandsTarget(d, s) ==
    LET item == Head(s.open_set)
        s1 == [s EXCEPT !.i = @ + 1, !.open_set = Tail(@), !.removed = Append(@, item),
                        !.inserted = Tail(@)]
        expanded == ExpandAll(d, s1, item, _neighbors(d, item).list, 1)
    IN IF item = s.end_node
       THEN IF s.debug_paths = FALSE
            THEN [s1 EXCEPT !.pc = "done", !.exit = "path",
                            !.ret = Arr(_reconstructPath(d, s.came_from, item))]
            ELSE [expanded EXCEPT !.pc = "break"]
       ELSE expanded

\* a variant of LoopIteration that returns the path in both modes
LoopIterationIgnoresMode(d, s) ==
    LET item == Head(s.open_set)
        s1 == [s EXCEPT !.i = @ + 1, !.open_set = Tail(@), !.removed = Append(@, item),
                        !.inserted = Tail(@)]
    IN IF item = s.end_node
       THEN [s1 EXCEPT !.pc = "done", !.exit = "path",
                       !.ret = Arr(_reconstructPath(d, s.came_from, item))]
       ELSE ExpandAll(d, s1, item, _neighbors(d, item).list, 1)

\* lines 431-460: one iteration of the while loop
LoopIteration(d, s) ==
    LET item == Head(s.open_set)
        s1 == [s EXCEPT !.i = @ + 1, !.open_set = Tail(@), !.removed = Append(@, item),
                        !.inserted = Tail(@)]
    IN IF item = s.end_node
       THEN IF s.debug_paths = FALSE
            THEN [s1 EXCEPT !.pc = "done", !.exit = "path",
                            !.ret = Arr(_reconstructPath(d, s.came_from, item))]
            ELSE [s1 EXCEPT !.pc = "break"]
       ELSE ExpandAll(d, s1, item, _neighbors(d, item).list, 1)

RECURSIVE RunSearch(_, _)
RunSearch(d, s) ==
    IF s.pc = "done" THEN s
    ELSE IF s.pc = "loop" /\ LoopCondition(s) THEN RunSearch(d, LoopIteration(d, s))
    ELSE RunSearch(d, AfterLoop(d, s))

\* the whole call, as a function of its inputs: the final search state
_planRoute(d, start, end, debug, budget) ==
    RunSearch(d, PlanEntry(d, start, end, debug, budget))

-----------------------------------------------------------------------------
\* The locator.  A point is <<long, lat>> in tenths of a coordinate step.  A
\* factor is the number k of the sample, k tenths: the values of i in
\* "for (let i = 0.0; i <= 1.0; i += 0.1)" are 0, 0.1, ..., and the eleventh
\* is 0.9999999999999999.  A position [way_id, null, null] is <<way_id>>.

\* floor(log2(n)) for n >= 1
RECURSIVE FloorLog2(_)
FloorLog2(n) == IF n < 2 THEN 0 ELSE 1 + FloorLog2(n \div 2)

\* (n2 - n1) * 0.9999999999999999 + n1 in double arithmetic, n1 and n2 a
\* number of steps of 10^8 decimicro-degrees: the product falls one unit in
\* the last place short of n2 - n1, and the sum is n2 only when that unit is
\* rounded away, that is when n2 - n1 lies in a lower binade than n2
FallsShort(n1, n2) ==
    /\ n1 # n2
    /\ \/ n2 = 0
       \/ FloorLog2(Abs(n2 - n1) * 100000000) >= FloorLog2(Abs(n2) * 100000000)

\* (n2 - n1) * i + n1 for sample k: v is the value in tenths of a step, e the
\* side on which the double result misses it at the eleventh sample (0: none)
Lerp(n1, n2, k) ==
    [v |-> (n2 - n1) * k + n1 * 10,
     e |-> IF k = 10 /\ FallsShort(n1, n2) THEN (IF n1 < n2 THEN -1 ELSE 1) ELSE 0]

\* lines 268-277: dist_2 of sample k of a segment, as <<exact part, rest>>.
\* The rest is what the rounding of the sample's coordinates adds: in first
\* order twice the product of a coordinate's distance and its error, and the
\* square of the error where the exact part is 0
SampleDist2(n1, n2, k, point) ==
    LET way_long == Lerp(n1.long, n2.long, k)
        way_lat == Lerp(n1.lat, n2.lat, k)
        long_dist == way_long.v - point[1]
        lat_dist == way_lat.v - point[2]
        exact == long_dist * long_dist + lat_dist * lat_dist
    IN <<exact,
         IF exact = 0
         THEN way_long.e * way_long.e + way_lat.e * way_lat.e
         ELSE long_dist * way_long.e + lat_dist * way_lat.e>>

Dist2Less(a, b) == a[1] < b[1] \/ (a[1] = b[1] /\ a[2] < b[2])

\* a variant of Closer with "<=" for "<"
CloserOrEqual(dist_2, min_dist_2) == ~Dist2Less(min_dist_2, dist_2)

\* line 278: dist_2 < min_dist_2
Closer(dist_2, min_dist_2) == Dist2Less(dist_2, min_dist_2)

\* the two loops of lines 261-284
RECURSIVE SampleScan(_, _, _, _, _, _)
SampleScan(d, way_nodes, point, way_segment_it, k, best) ==
    IF way_segment_it >= Len(way_nodes) - 1 THEN best
    ELSE IF k > 10 THEN SampleScan(d, way_nodes, point, way_segment_it + 1, 0, best)
    ELSE LET n1 == Node(d, way_nodes[way_segment_it + 1])
             n2 == Node(d, way_nodes[way_segment_it + 2])
             dist_2 == SampleDist2(n1, n2, k, point)
         IN IF Closer(dist_2, best.min_dist_2)
            THEN SampleScan(d, way_nodes, point, way_segment_it, k + 1,
                            [min_dist_2 |-> dist_2, sample |-> <<way_segment_it, k>>])
            ELSE SampleScan(d, way_nodes, point, way_segment_it, k + 1, best)

\* <<min_dist_node, min_dist_factor>>, or <<>> for [null, null]
_findWayPosition(d, way_id, point) ==
    IF way_id = -1 THEN <<>>
    ELSE SampleScan(d, Way(d, way_id).nodes, point, 0, 0,
                    [min_dist_2 |-> <<Infinity, 0>>, sample |-> <<>>]).sample

\* the coordinate of a position, as <<long, lat>> of Lerp values
_wayPositionToLongLat(d, way_position) ==
    LET way == Way(d, way_position.arr[1])
        n1 == Node(d, way.nodes[way_position.arr[2] + 1])
        n2 == Node(d, way.nodes[way_position.arr[2] + 2])
        factor == way_position.arr[3]
    IN <<Lerp(n1.long, n2.long, factor), Lerp(n1.lat, n2.lat, factor)>>

\* lines 805-813: the window read back at the query-th pass of the loop; the
\* rasterizer answers with empty windows for the first misses queries
OracleAnswer(misses, hit, query) == IF query <= misses THEN {} ELSE hit

\* a variant of QueryLoop with "scale >= 50.0"
RECURSIVE QueryLoopToFloor(_, _, _, _, _, _)
QueryLoopToFloor(d, point, scale, misses, hit, log) ==
    IF scale >= 50 * 4
    THEN LET way_id == _spiralSearchWayId(OracleAnswer(misses, hit, Len(log) + 1))
             position == _findWayPosition(d, way_id, point)
             log1 == Append(log, <<scale, way_id>>)
         IN IF way_id # -1
            THEN [ret |-> Arr(<<way_id>> \o position), log |-> log1]
            ELSE QueryLoopToFloor(d, point, scale \div 2, misses, hit, log1)
    ELSE [ret |-> JsNull, log |-> log]

\* lines 803-824: the loop "while (scale > 50.0)", scale in quarters; log is
\* the history of the queries, <<scale, way_id>> each
RECURSIVE QueryLoop(_, _, _, _, _, _)
QueryLoop(d, point, scale, misses, hit, log) ==
    IF scale > 50 * 4
    THEN LET way_id == _spiralSearchWayId(OracleAnswer(misses, hit, Len(log) + 1))
             position == _findWayPosition(d, way_id, point)
             log1 == Append(log, <<scale, way_id>>)
         IN IF way_id # -1
            THEN [ret |-> Arr(<<way_id>> \o position), log |-> log1]
            ELSE QueryLoop(d, point, scale \div 2, misses, hit, log1)
    ELSE [ret |-> JsNull, log |-> log]

_findWayNearLongLat(this, d, point, misses, hit) ==
    QueryLoop(d, point, this.scale * 50 * 4, misses, hit, <<>>)

\* the constructor of Renderer: lines 571-577
Renderer ==
    [scale |-> 10, selected_way |-> JsNull, start_position |-> JsNull,
     planned_path |-> JsNull, debug_paths |-> FALSE]

\* _planRoute with a position that has no segment: nodes[null] is undefined,
\* data.nodes[undefined] is undefined, and _distance reads a property of it
PlanRouteThrows(start, end) ==
    /\ ~start.isNull
    /\ ~end.isNull
    /\ (Len(start.arr) < 3 \/ Len(end.arr) < 3)

\* a variant of _setSearchEnd that empties the index once a path is planned
SetSearchEndDropsIndex(this, d, way_position, budget) ==
    IF PlanRouteThrows(this.start_position, way_position)
    THEN [this |-> this, data |-> d, plan |-> "TypeError"]
    ELSE LET path == _planRoute(d, this.start_position, way_position,
                                this.debug_paths, budget).ret
         IN [this |-> [this EXCEPT !.planned_path = path],
             data |-> IF path.isNull THEN d
                      ELSE [d EXCEPT !.node_to_way =
                               [n \in DOMAIN @ |-> [defined |-> FALSE, list |-> <<>>]]],
             plan |-> "returned"]

\* lines 921-923; budget is the value of "max-path-nodes" that _planRoute reads
_setSearchEnd(this, d, way_position, budget) ==
    IF PlanRouteThrows(this.start_position, way_position)
    THEN [this |-> this, data |-> d, plan |-> "TypeError"]
    ELSE [this |-> [this EXCEPT !.planned_path =
                       _planRoute(d, this.start_position, way_position,
                                  this.debug_paths, budget).ret],
          data |-> d, plan |-> "returned"]

\* lines 829-832; near is what the call of _findWayNearLongLat at line 829
\* returned
UpdatePointerPos(this, d, near, budget) ==
    LET this1 == [this EXCEPT !.selected_way = near.ret]
        after == _setSearchEnd(this1, d, this1.selected_way, budget)
    IN after

\* the mode a value of debug_paths stands for
PlanMode(debug) == IF debug = TRUE THEN "FRONTIER" ELSE "SHORTEST"

\* render_map, lines 690-702: _wayPositionToLongLat of a position that has
\* no segment reads a property of undefined, and the frame ends there
RenderMapThrows(this) ==
    \/ ~this.selected_way.isNull /\ Len(this.selected_way.arr) < 3
    \/ ~this.start_position.isNull /\ Len(this.start_position.arr) < 3

\* render_map, lines 709-717: whether the planned path is drawn, and as what
DrawsPath(this) == ~RenderMapThrows(this) /\ ~this.planned_path.isNull

draw_type(this) == IF this.debug_paths = TRUE THEN "POINTS" ELSE "LINE_STRIP"

-----------------------------------------------------------------------------
\* The PointerTracker.  An event is [pointerId, pageX, pageY]; down_pointers
\* is the array of the cached events.

\* findIndex of line 555: the index of the first cached event of the pointer
\* of e, or down_pointers.length when there is none
_pointerIdx(dp, e) ==
    IF \E j \in 1..Len(dp) : dp[j].pointerId = e.pointerId
    THEN (CHOOSE j \in 1..Len(dp) :
              /\ dp[j].pointerId = e.pointerId
              /\ \A k \in 1..(j - 1) : dp[k].pointerId # e.pointerId) - 1
    ELSE Len(dp)

\* a[idx] = val for idx <= a.length: an assignment at a.length appends
ArraySet(a, idx, val) ==
    IF idx = Len(a) THEN Append(a, val) ELSE [a EXCEPT ![idx + 1] = val]

\* Array.prototype.splice(idx, 1): nothing is removed at a.length
SpliceOut(a, idx) == SubSeq(a, 1, idx) \o SubSeq(a, idx + 2, Len(a))

_calculatePointerDistance(e1, e2) ==
    LET y_dist == e2.pageY - e1.pageY
        x_dist == e2.pageX - e1.pageX
    IN Sqrt(x_dist * x_dist + y_dist * y_dist)

\* lines 526-545: what _onPointerMove does with down_pointers after the call
\* of updatePointerPos.  last_event is undefined when the pointer of e is not
\* cached (idx is down_pointers.length): the event is stored, and the read of
\* last_event.pageX (line 530) or of e2.pageY (line 505) raises a TypeError
PointerMoveArray(dp, e) ==
    LET idx == _pointerIdx(dp, e)
    IN IF Len(dp) = 1
       THEN [down_pointers |-> ArraySet(dp, idx, e), threw |-> idx = Len(dp), delta |-> 0]
       ELSE IF Len(dp) = 2
       THEN LET other_idx == (idx + 1) % 2
                other_event == dp[other_idx + 1]
            IN [down_pointers |-> ArraySet(dp, idx, e),
                threw |-> idx = Len(dp),
                delta |-> IF idx = Len(dp) THEN 0
                          ELSE (_calculatePointerDistance(other_event, e)
                                  - _calculatePointerDistance(other_event, dp[idx + 1])) * 2]
       ELSE [down_pointers |-> dp, threw |-> FALSE, delta |-> 0]

-----------------------------------------------------------------------------
\* Inputs

\* node coordinates: a 2-wide grid, node id n at column n % 2, row n \div 2
NodeTable ==
    << [long |-> 0, lat |-> 0], [long |-> 1, lat |-> 0],
       [long |-> 0, lat |-> 1], [long |-> 1, lat |-> 1],
       [long |-> 0, lat |-> 2] >>

\* the ways a graph is made of
WayPool ==
    << <<2, 0, 1>>, <<0, 3, 4, 2>>, <<0, 2, 4>>, <<2, 3>>, <<1, 3, 1>>, <<1, 0, 2>> >>

IsInjective(f) == \A a, b \in DOMAIN f : f[a] = f[b] => a = b

WayChoices ==
    {c \in UNION {[1..k -> 1..Len(WayPool)] : k \in 1..MaxWays} : IsInjective(c)}

Graphs ==
    {_preprocessData(NodeTable,
                     [w \in 1..Len(c) |-> [nodes |-> WayPool[c[w]], tags |-> <<"highway/residential">>]])
        : c \in WayChoices}

\* the RoadPositions [way_id, segment, factor] of a graph (factor in tenths), and null
Factors == {0, 5, 9}

Positions(d) ==
    {Arr(<<w, seg, fac>>) : w \in 0..(Len(d.ways) - 1), seg \in 0..3, fac \in Factors}

RoadPositions(d) ==
    {p \in Positions(d) : p.arr[2] <= Len(Way(d, p.arr[1]).nodes) - 2} \cup {JsNull}

Budgets == 0..MaxBudget

\* the windows: up to MaxSamples samples, at coordinates taken from
\* SampleCoords, that hold a way id; all other samples are empty (-1)
SampleCoords == {0, 3, 5, 6, 10}

Samples == SampleCoords \X SampleCoords \X (0..(MaxWays - 1))

Windows ==
    {{<<4 * (s[c][2] * WAY_FINDER_RES + s[c][1]), s[c][3]>> : c \in DOMAIN s} :
        s \in {f \in UNION {[1..k -> Samples] : k \in 0..MaxSamples} :
                  \A a, b \in DOMAIN f :
                      a < b => <<f[a][2], f[a][1]>> # <<f[b][2], f[b][1]>>}}

NotSearched == [done |-> FALSE, way_id |-> -1]

\* what "/data.json" may hold: a well-formed graph, one with a way of one node,
\* one with a way that names a node that is not there (node_to_way is not yet set)
FetchedWays ==
    << <<(<<2, 0, 1>>), (<<0, 3, 4, 2>>)>>,
       <<(<<1, 0, 2>>), (<<3>>)>>,
       <<(<<2, 0, 1>>), (<<3, 5>>)>> >>

FetchedData ==
    {[nodes |-> NodeTable,
      ways |-> [w \in 1..Len(FetchedWays[g]) |->
                   [nodes |-> FetchedWays[g][w], tags |-> <<"highway/residential">>]],
      node_to_way |-> <<>>]
        : g \in 1..Len(FetchedWays)}

\* the graphs the locator is run on; the second has a way of one node
LocatorWays ==
    << <<(<<2, 0, 1>>), (<<0, 3, 4, 2>>)>>,
       <<(<<1, 0, 2>>), (<<3>>)>>,
       <<(<<1, 3, 1>>), (<<2, 3>>)>> >>

LocatorGraphs ==
    {_preprocessData(NodeTable,
                     [w \in 1..Len(LocatorWays[g]) |->
                         [nodes |-> LocatorWays[g][w], tags |-> <<"highway/residential">>]])
        : g \in 1..Len(LocatorWays)}

\* the pointer: on a node, or off the nodes
Points ==
    {<<NodeTable[n].long * 10, NodeTable[n].lat * 10>> : n \in 1..Len(NodeTable)}
        \cup {<<5, 5>>, <<3, 0>>}

\* values of Renderer.scale
Scales == {1, 2, 3, 10}

\* the windows of a call: empty, or way w drawn on the central sample
OracleWindows(d) ==
    {{}} \cup {{<<4 * (5 * WAY_FINDER_RES + 5), w>>} : w \in 0..(Len(d.ways) - 1)}

\* the pointer events of the handler: on node 0, on node 3, off the nodes
PointerPoints == {<<0, 0>>, <<10, 10>>, <<5, 5>>}

\* the graph the PointerTracker is run on
PointerGraph ==
    _preprocessData(NodeTable, <<[nodes |-> WayPool[1], tags |-> <<"highway/residential">>]>>)

\* the calls of _findWayNearLongLat the handlers make (line 829), with their
\* results: per scale, graph, point and window that the rasterizer answers
\* the first query with
NearLongLatCalls ==
    UNION {{<<scale, d, point, hit,
              _findWayNearLongLat([Renderer EXCEPT !.scale = scale], d, point, 0, hit)>> :
               scale \in Scales, point \in PointerPoints, hit \in OracleWindows(d)} :
            d \in LocatorGraphs \cup {PointerGraph}}

NearLongLat(this, d, point, hit) ==
    (CHOOSE c \in NearLongLatCalls :
        c[1] = this.scale /\ c[3] = point /\ c[4] = hit /\ c[2] = d)[5]

LocatorBudgets == {1, MaxBudget}

NotLocated ==
    [done |-> FALSE, point |-> <<0, 0>>, scale |-> 10, log |-> <<>>, ret |-> JsNull]

\* the pointers and the page coordinates of their events
PointerIds == {1, 2, 3}

Pages == {0, 1}

Events == {[pointerId |-> id, pageX |-> x, pageY |-> 0] : id \in PointerIds, x \in Pages}

\* the coordinate _pixelToLongLat gives for the events of the PointerTracker
PagePoint == <<5, 5>>

\* stray_move: the handler was _onPointerMove, for a pointer that is not down
NoPointerCall == [stray_move |-> FALSE, threw |-> FALSE]

\* line 733, this.scale *= Math.pow(1.001, delta): the scale grows for a
\* positive delta and shrinks for a negative one; the model keeps the
\* direction and lets the scale move to any value of Scales on that side (it
\* stays where Scales has none)
ScalesAfter(scale, delta) ==
    LET side == {s \in Scales :
                    (delta > 0 /\ s > scale) \/ (delta < 0 /\ s < scale)}
    IN IF delta = 0 \/ side = {} THEN {scale} ELSE side

-----------------------------------------------------------------------------
\* The state machine

State ==
    [pc |-> pc, start_node |-> start_node, end_node |-> end_node,
     debug_paths |-> debug_paths, max_attempts |-> max_attempts,
     open_set |-> open_set, came_from |-> came_from, g_score |-> g_score,
     f_score |-> f_score, i |-> i, removed |-> removed, inserted |-> inserted,
     exit |-> exit, ret |-> ret]

Becomes(s) ==
    /\ pc' = s.pc
    /\ start_node' = s.start_node
    /\ end_node' = s.end_node
    /\ debug_paths' = s.debug_paths
    /\ max_attempts' = s.max_attempts
    /\ open_set' = s.open_set
    /\ came_from' = s.came_from
    /\ g_score' = s.g_score
    /\ f_score' = s.f_score
    /\ i' = s.i
    /\ removed' = s.removed
    /\ inserted' = s.inserted
    /\ exit' = s.exit
    /\ ret' = s.ret

Idle ==
    [pc |-> "idle", start_node |-> -1, end_node |-> -1,
     debug_paths |-> FALSE, max_attempts |-> 0,
     open_set |-> <<>>, came_from |-> <<>>, g_score |-> <<>>,
     f_score |-> <<>>, i |-> 0, removed |-> <<>>, inserted |-> <<>>,
     exit |-> "none", ret |-> JsNull]

\* no call of _planRoute is in progress
PlannerIdle ==
    /\ pc = "idle"
    /\ start_node = -1
    /\ end_node = -1
    /\ debug_paths = FALSE
    /\ max_attempts = 0
    /\ open_set = <<>>
    /\ came_from = <<>>
    /\ g_score = <<>>
    /\ f_score = <<>>
    /\ i = 0
    /\ removed = <<>>
    /\ inserted = <<>>
    /\ exit = "none"
    /\ ret = JsNull

Init ==
    /\ data \in Graphs
    /\ PlannerIdle
    /\ phase = "constructed"
    /\ pixels = {}
    /\ found = NotSearched
    /\ renderer = Renderer
    /\ located = NotLocated
    /\ plan_call = "none"
    /\ planned_mode = "none"
    /\ frame = TRUE
    /\ down_pointers = <<>>
    /\ pressed = {}
    /\ pointer_call = NoPointerCall

\* _planRoute is called: lines 412-429
PlanCall ==
    /\ phase = "constructed"
    /\ pc = "idle"
    /\ \E start \in RoadPositions(data), end \in RoadPositions(data),
          debug \in BOOLEAN, budget \in Budgets :
            Becomes(PlanEntry(data, start, end, debug, budget))
    /\ UNCHANGED <<data, phase, spiralVars, locateVars, pointerVars>>

\* one iteration of the while loop
PlanLoop ==
    /\ pc = "loop"
    /\ LoopCondition(State)
    /\ Becomes(LoopIteration(data, State))
    /\ UNCHANGED <<data, phase, spiralVars, locateVars, pointerVars>>

\* the loop has ended (condition false, or break): the return of lines 463-471
PlanReturn ==
    /\ \/ pc = "loop" /\ ~LoopCondition(State)
       \/ pc = "break"
    /\ Becomes(AfterLoop(data, State))
    /\ UNCHANGED <<data, phase, spiralVars, locateVars, pointerVars>>

\* the caller has taken the result; the search state of the call is dropped
PlanDrop ==
    /\ pc = "done"
    /\ Becomes(Idle)
    /\ UNCHANGED <<data, phase, spiralVars, locateVars, pointerVars>>

Next == PlanCall \/ PlanLoop \/ PlanReturn \/ PlanDrop

Spec == Init /\ [][Next]_vars

-----------------------------------------------------------------------------
\* _spiralSearchWayId on its own: a window is read back, then searched

SpiralInit ==
    /\ data = _preprocessData(NodeTable, <<[nodes |-> WayPool[1], tags |-> <<"highway/residential">>]>>)
    /\ PlannerIdle
    /\ phase = "constructed"
    /\ pixels \in Windows
    /\ found = NotSearched
    /\ renderer = Renderer
    /\ located = NotLocated
    /\ plan_call = "none"
    /\ planned_mode = "none"
    /\ frame = TRUE
    /\ down_pointers = <<>>
    /\ pressed = {}
    /\ pointer_call = NoPointerCall

SpiralSearch ==
    /\ ~found.done
    /\ found' = [done |-> TRUE, way_id |-> _spiralSearchWayId(pixels)]
    /\ UNCHANGED <<data, planVars, phase, pixels, locateVars, pointerVars>>

SpiralNext == SpiralSearch

SpiralSpec == SpiralInit /\ [][SpiralNext]_vars

-----------------------------------------------------------------------------
\* init: the data is fetched, preprocessed, and handed to the Renderer

LoadInit ==
    /\ data \in FetchedData
    /\ PlannerIdle
    /\ phase = "fetched"
    /\ pixels = {}
    /\ found = NotSearched
    /\ renderer = Renderer
    /\ located = NotLocated
    /\ plan_call = "none"
    /\ planned_mode = "none"
    /\ frame = FALSE
    /\ down_pointers = <<>>
    /\ pressed = {}
    /\ pointer_call = NoPointerCall

\* lines 929-931: _preprocessData(data), then new Renderer(data) and the
\* PointerTracker; an exception in the constructor ends init, and no handler
\* is registered; the constructor ends with the request of a frame (line 654)
Load ==
    /\ phase = "fetched"
    /\ data' = _preprocessData(data.nodes, data.ways)
    /\ phase' = IF MapBuffersThrow(data) THEN "failed" ELSE "constructed"
    /\ frame' = ~MapBuffersThrow(data)
    /\ UNCHANGED <<planVars, spiralVars, renderer, located, plan_call, planned_mode, pointerVars>>

LoadNext == Load \/ Next

LoadSpec == LoadInit /\ [][LoadNext]_vars

-----------------------------------------------------------------------------
\* _findWayNearLongLat on its own, at the scales the wheel handler (line 733:
\* this.scale *= Math.pow(1.001, delta)) leads to

LocateInit ==
    /\ data \in LocatorGraphs
    /\ PlannerIdle
    /\ phase = "constructed"
    /\ pixels = {}
    /\ found = NotSearched
    /\ renderer \in {[Renderer EXCEPT !.scale = scale] : scale \in Scales}
    /\ located = NotLocated
    /\ plan_call = "none"
    /\ planned_mode = "none"
    /\ frame = TRUE
    /\ down_pointers = <<>>
    /\ pressed = {}
    /\ pointer_call = NoPointerCall

\* line 829: the call of _findWayNearLongLat, and its return
Locate ==
    /\ \E point \in Points, misses \in 0..MaxMisses, hit \in OracleWindows(data) :
           LET near == _findWayNearLongLat(renderer, data, point, misses, hit)
           IN located' = [done |-> TRUE, point |-> point, scale |-> renderer.scale,
                          log |-> near.log, ret |-> near.ret]
    /\ UNCHANGED <<data, planVars, phase, spiralVars, renderer, plan_call, planned_mode, frame, pointerVars>>

LocateNext == Locate

LocateSpec == LocateInit /\ [][LocateNext]_vars

-----------------------------------------------------------------------------
\* The handlers of the Renderer that set the positions and the planned path

RendererInit ==
    /\ data \in LocatorGraphs
    /\ PlannerIdle
    /\ phase = "constructed"
    /\ pixels = {}
    /\ found = NotSearched
    /\ renderer = Renderer
    /\ located = NotLocated
    /\ plan_call = "none"
    /\ planned_mode = "none"
    /\ frame = TRUE
    /\ down_pointers = <<>>
    /\ pressed = {}
    /\ pointer_call = NoPointerCall

\* a pointer event: _findWayNearLongLat, then _setSearchEnd; the rasterizer
\* answers the first query with the window hit, or all with empty windows.
\* An exception of _planRoute ends the handler before the frame is requested
\* (line 843)
updatePointerPos ==
    /\ \E point \in PointerPoints, hit \in OracleWindows(data), budget \in LocatorBudgets :
            LET r == UpdatePointerPos(renderer, data, NearLongLat(renderer, data, point, hit), budget)
            IN /\ renderer' = r.this
               /\ data' = r.data
               /\ plan_call' = r.plan
               /\ planned_mode' = IF r.plan = "returned" THEN PlanMode(renderer.debug_paths)
                                   ELSE planned_mode
               /\ frame' = IF r.plan = "returned" THEN TRUE ELSE frame
    /\ UNCHANGED <<planVars, phase, spiralVars, located, pointerVars>>

\* lines 905-913
_setStartPos ==
    /\ renderer' = [renderer EXCEPT !.start_position =
                       IF renderer.selected_way # JsNull
                       THEN renderer.selected_way ELSE JsNull]
    /\ frame' = TRUE
    /\ UNCHANGED <<data, planVars, phase, spiralVars, located, plan_call, planned_mode, pointerVars>>

\* a variant of _clearStartPos that leaves planned_path as it is
ClearStartPosKeepsPath ==
    /\ renderer' = [renderer EXCEPT !.start_position = JsNull]
    /\ frame' = TRUE
    /\ UNCHANGED <<data, planVars, phase, spiralVars, located, plan_call, planned_mode, pointerVars>>

\* lines 915-919
_clearStartPos ==
    /\ renderer' = [renderer EXCEPT !.start_position = JsNull, !.planned_path = JsNull]
    /\ frame' = TRUE
    /\ UNCHANGED <<data, planVars, phase, spiralVars, located, plan_call, planned_mode, pointerVars>>

\* the click handler of "debug-path": line 653; no frame is requested
ToggleDebugPaths ==
    /\ renderer' = [renderer EXCEPT !.debug_paths = ~@]
    /\ UNCHANGED <<data, planVars, phase, spiralVars, located, plan_call, planned_mode, frame, pointerVars>>

\* the callback of requestAnimationFrame: the fields of the Renderer are read
\* and drawn, none is written
render_map ==
    /\ frame
    /\ frame' = FALSE
    /\ UNCHANGED <<data, planVars, phase, spiralVars, renderer, located, plan_call, planned_mode, pointerVars>>

RendererNext ==
    updatePointerPos \/ _setStartPos \/ _clearStartPos \/ ToggleDebugPaths \/ render_map

RendererSpec == RendererInit /\ [][RendererNext]_vars

-----------------------------------------------------------------------------
\* The handlers of the PointerTracker, on a Renderer whose start is not set

PointerInit ==
    /\ data = PointerGraph
    /\ PlannerIdle
    /\ phase = "constructed"
    /\ pixels = {}
    /\ found = NotSearched
    /\ renderer = Renderer
    /\ located = NotLocated
    /\ plan_call = "none"
    /\ planned_mode = "none"
    /\ frame = TRUE
    /\ down_pointers = <<>>
    /\ pressed = {}
    /\ pointer_call = NoPointerCall

\* lines 548-552: the event is cached, then renderer.updatePointerPos is called
_onPointerDown ==
    /\ \E hit \in OracleWindows(data), e \in Events :
          LET r == UpdatePointerPos(renderer, data, NearLongLat(renderer, data, PagePoint, hit), MaxBudget)
          IN /\ down_pointers' = ArraySet(down_pointers, _pointerIdx(down_pointers, e), e)
             /\ pressed' = pressed \cup {e.pointerId}
             /\ renderer' = r.this
             /\ data' = r.data
             /\ plan_call' = r.plan
             /\ planned_mode' = IF r.plan = "returned" THEN PlanMode(renderer.debug_paths)
                                 ELSE planned_mode
             /\ frame' = IF r.plan = "returned" THEN TRUE ELSE frame
             /\ pointer_call' = [stray_move |-> FALSE, threw |-> r.plan = "TypeError"]
    /\ UNCHANGED <<planVars, phase, spiralVars, located>>

\* lines 518-546: nothing is done while the context menu is shown; else
\* updatePointerPos, then the drag of one pointer (moveViewport, which moves
\* the center and requests a frame) or the pinch of two (updateScale)
_onPointerMove ==
    /\ \E hit \in OracleWindows(data), e \in Events, visible \in BOOLEAN :
          LET r == UpdatePointerPos(renderer, data, NearLongLat(renderer, data, PagePoint, hit), MaxBudget)
              m == PointerMoveArray(down_pointers, e)
          IN IF visible
             THEN /\ pointer_call' = [stray_move |-> e.pointerId \notin pressed, threw |-> FALSE]
                  /\ UNCHANGED <<data, renderer, plan_call, planned_mode, frame, down_pointers>>
             ELSE IF r.plan = "TypeError"
             THEN /\ renderer' = r.this
                  /\ data' = r.data
                  /\ plan_call' = r.plan
                  /\ pointer_call' = [stray_move |-> e.pointerId \notin pressed, threw |-> TRUE]
                  /\ UNCHANGED <<planned_mode, frame, down_pointers>>
             ELSE /\ data' = r.data
                  /\ plan_call' = r.plan
                  /\ planned_mode' = PlanMode(renderer.debug_paths)
                  /\ frame' = TRUE
                  /\ down_pointers' = m.down_pointers
                  /\ \E scale \in (IF m.threw THEN {r.this.scale}
                                   ELSE ScalesAfter(r.this.scale, m.delta)) :
                         renderer' = [r.this EXCEPT !.scale = scale]
                  /\ pointer_call' = [stray_move |-> e.pointerId \notin pressed, threw |-> m.threw]
    /\ UNCHANGED <<planVars, phase, spiralVars, located, pressed>>

\* lines 513-516
_onPointerUp ==
    /\ \E e \in Events :
          /\ down_pointers' = SpliceOut(down_pointers, _pointerIdx(down_pointers, e))
          /\ pressed' = pressed \ {e.pointerId}
          /\ pointer_call' = [stray_move |-> FALSE, threw |-> FALSE]
    /\ UNCHANGED <<data, planVars, phase, spiralVars, locateVars>>

PointerNext == _onPointerDown \/ _onPointerMove \/ _onPointerUp

PointerSpec == PointerInit /\ [][PointerNext]_vars

-----------------------------------------------------------------------------
\* Graph facts the properties are stated with (read off the ways, not off
\* node_to_way)

NodeIds == 0..(Len(data.nodes) - 1)

Coord(n) == <<data.nodes[n + 1].long, data.nodes[n + 1].lat>>

Adjacent(a, b) ==
    \E w \in 1..Len(data.ways) :
        \E k \in 1..(Len(data.ways[w].nodes) - 1) :
            \/ data.ways[w].nodes[k] = a /\ data.ways[w].nodes[k + 1] = b
            \/ data.ways[w].nodes[k] = b /\ data.ways[w].nodes[k + 1] = a

RECURSIVE Closure(_)
Closure(S) ==
    LET T == S \cup {b \in NodeIds : \E a \in S : Adjacent(a, b)}
    IN IF T = S THEN S ELSE Closure(T)

\* the connected component of node n
Component(n) == Closure({n})

Reachable(a, b) == b \in Component(a)

\* length of a walk given as coordinates in target-to-start order: the sum of
\* _distance over its steps, each taken from the start side to the target side
RECURSIVE PathLength(_)
PathLength(p) ==
    IF Len(p) <= 1 THEN 0
    ELSE _distance([long |-> p[2][1], lat |-> p[2][2]], [long |-> p[1][1], lat |-> p[1][2]])
         + PathLength(Tail(p))

\* Bellman-Ford: least total _distance of a walk from a to each node
RECURSIVE Relax(_, _)
Relax(dist, rounds) ==
    IF rounds = 0 THEN dist
    ELSE Relax([n \in NodeIds |->
                   LET via == {dist[m] + _distance(Node(data, m), Node(data, n)) :
                                  m \in {x \in NodeIds : Adjacent(x, n) /\ dist[x] < Infinity}}
                       best == IF via = {} THEN Infinity
                               ELSE CHOOSE v \in via : \A u \in via : v <= u
                   IN IF best < dist[n] THEN best ELSE dist[n]],
               rounds - 1)

ShortestDistance(a, b) ==
    Relax([n \in NodeIds |-> IF n = a THEN 0 ELSE Infinity], Len(data.nodes))[b]

\* a call that got past the null check
Searching == pc # "idle" /\ exit # "null_args"

Returned == pc = "done" /\ exit # "null_args"

Last(s) == s[Len(s)]

TargetRemoved == removed # <<>> /\ Last(removed) = end_node

-----------------------------------------------------------------------------
\* C1: a path returned in SHORTEST mode starts with the coordinate of the end
\* node, ends with the coordinate of the start node, and every two consecutive
\* coordinates are those of two nodes adjacent in some way.
C1_PathEndsAndEdges ==
    (pc = "done" /\ exit = "path") =>
        LET p == ret.arr
        IN /\ ~ret.isNull
           /\ Len(p) >= 1
           /\ p[1] = Coord(end_node)
           /\ p[Len(p)] = Coord(start_node)
           /\ \A k \in 1..(Len(p) - 1) :
                  \E a, b \in NodeIds :
                      Coord(a) = p[k] /\ Coord(b) = p[k + 1] /\ Adjacent(a, b)

C1_Witness ==
    pc = "done" /\ exit = "path" /\ debug_paths = FALSE /\ Len(ret.arr) >= 3

\* C2 as stated: a path returned in SHORTEST mode has the least total length
\* among all paths from the start node to the end node.
C2_ReturnedPathIsShortest ==
    (pc = "done" /\ exit = "path") =>
        PathLength(ret.arr) = ShortestDistance(start_node, end_node)

\* the coordinates of the nodes that have an f-score, in the order they got it
ScoredCoords == [j \in 1..Len(f_score) |-> Coord(f_score[j][1])]

Range(s) == {s[j] : j \in 1..Len(s)}

\* the loop ended on its condition: by the budget with nodes still open, or
\* by an empty open set
GaveUp == ~TargetRemoved /\ open_set # <<>> /\ Len(removed) = max_attempts

Exhausted == ~TargetRemoved /\ open_set = <<>>

\* C3: the number of nodes removed from the open set never exceeds the
\* budget; when budget-many removals were made and none removed the target,
\* SHORTEST mode returns null and FRONTIER mode the frontier snapshot.
C3_BudgetBoundsRemovals ==
    Searching =>
        /\ i = Len(removed)
        /\ Len(removed) <= max_attempts
        /\ (pc = "done" /\ Len(removed) = max_attempts /\ end_node \notin Range(removed)) =>
               IF debug_paths
               THEN exit = "frontier" /\ ret = Arr(ScoredCoords)
               ELSE exit = "null" /\ ret = JsNull

C3_Witness ==
    /\ pc = "done" /\ debug_paths /\ max_attempts >= 2
    /\ Len(removed) = max_attempts /\ end_node \notin Range(removed)
    /\ open_set # <<>> /\ Len(ret.arr) >= 3

\* the nodes a RoadPosition of the graph reduces to
PositionNodes ==
    {n \in NodeIds : \E w \in 1..Len(data.ways) :
                        \E k \in 1..(Len(data.ways[w].nodes) - 1) : data.ways[w].nodes[k] = n}

\* C4 as stated: in SHORTEST mode the value returned when the budget is hit
\* differs from the value returned when the open set is exhausted.
C4_BudgetReportedDistinctly ==
    (Returned /\ ~debug_paths /\ GaveUp) =>
        \A sn, en \in PositionNodes : \A b \in Budgets :
            LET r == RunSearch(data, SearchStart(data, sn, en, FALSE, b))
            IN (r.exit = "null" /\ r.open_set = <<>>) => r.ret # ret

\* C4 amended: in SHORTEST mode plan returns null both when the budget is hit
\* and when the open set is exhausted.
C4_BothOutcomesReturnNull ==
    (Returned /\ ~debug_paths /\ (GaveUp \/ Exhausted)) => ret = JsNull

C4_Witness ==
    /\ Returned /\ ~debug_paths /\ GaveUp /\ ret = JsNull
    /\ Reachable(start_node, end_node)

\* C5: in SHORTEST mode, null returned with the budget not used up means that
\* no path exists; a reachable end node with the budget not used up gives a path.
C5_ExhaustedMeansNoPath ==
    (Returned /\ ~debug_paths /\ i < max_attempts) =>
        /\ exit = "null" => (open_set = <<>> /\ ~Reachable(start_node, end_node))
        /\ Reachable(start_node, end_node) => exit = "path"

C5_Witness ==
    /\ Returned /\ ~debug_paths /\ exit = "null" /\ i < max_attempts
    /\ open_set = <<>> /\ i >= 2

ExactlyOne(a, b, c) == (a /\ ~b /\ ~c) \/ (~a /\ b /\ ~c) \/ (~a /\ ~b /\ c)

\* C6 as stated: at the end of a search exactly one of the three conditions
\* holds: target removed, open set empty, budget-many removals made.
C6_ExactlyOneCondition ==
    Returned => ExactlyOne(TargetRemoved, open_set = <<>>, Len(removed) = max_attempts)

\* the lengths of the simple paths from node cur on, per node reached
RECURSIVE SimplePaths(_, _, _)
SimplePaths(cur, visited, len) ==
    {<<cur, len>>} \cup
    UNION {SimplePaths(nb, visited \cup {nb}, len + _distance(Node(data, cur), Node(data, nb))) :
              nb \in {x \in NodeIds \ visited : Adjacent(cur, x)}}

\* a natural number that does not depend on the budget: the length of the
\* open set, plus three for every simple path from the start node that is
\* shorter than the g-score of the node it leads to (no g-score: Infinity)
VariantOf(os, g) ==
    Len(os) + 3 * Cardinality({q \in SimplePaths(start_node, {start_node}, 0) :
                                  q[2] < (IF MapHas(g, q[1]) THEN MapGet(g, q[1]) ELSE Infinity)})

\* C6 amended: every search ends, whatever the budget (each iteration of the
\* loop lowers a natural number that the budget is no part of), and at its end
\* at least one of the three conditions holds.
C6_Terminates ==
    /\ [][(pc = "loop" /\ pc' = "loop") =>
              VariantOf(open_set', g_score') < VariantOf(open_set, g_score)]_vars
    /\ [](Returned => (TargetRemoved \/ open_set = <<>> \/ Len(removed) = max_attempts))

C6_Witness ==
    /\ Returned /\ max_attempts = MaxBudget /\ i < max_attempts
    /\ open_set = <<>> /\ ~TargetRemoved /\ i >= 3

\* C7: a path found with budget b is found with every larger budget, and the
\* path found with the larger budget is not longer.
C7_BudgetMonotone ==
    (pc = "done" /\ exit = "path") =>
        \A b \in (max_attempts + 1)..BudgetHorizon :
            LET r == RunSearch(data, SearchStart(data, start_node, end_node, FALSE, b))
            IN /\ r.exit = "path"
               /\ PathLength(r.ret.arr) <= PathLength(ret.arr)

C7_Witness ==
    /\ pc = "done" /\ exit = "path" /\ max_attempts < MaxBudget
    /\ Len(removed) = max_attempts /\ Len(ret.arr) >= 3

\* C8: plan(start, start, SHORTEST, budget >= 1) returns the one-coordinate
\* path made of the coordinate of the start node.
C8_SamePositionSinglePoint ==
    (Returned /\ ~debug_paths /\ start_node = end_node /\ max_attempts >= 1) =>
        (exit = "path" /\ ret = Arr(<<Coord(start_node)>>))

C8_Witness ==
    /\ Returned /\ ~debug_paths /\ start_node = end_node /\ max_attempts = 1
    /\ ret = Arr(<<Coord(start_node)>>)

\* C9: in FRONTIER mode the result is the coordinates of exactly the nodes
\* that got an f-score, each once, and not the reconstructed path, however the
\* loop ended.
C9_FrontierIsScoredNodes ==
    (Returned /\ debug_paths) =>
        /\ exit = "frontier"
        /\ ~ret.isNull
        /\ Len(ret.arr) = Cardinality({f_score[j][1] : j \in 1..Len(f_score)})
        /\ Range(ret.arr) = {Coord(f_score[j][1]) : j \in 1..Len(f_score)}
        /\ Coord(start_node) \in Range(ret.arr)

C9_Witness ==
    /\ Returned /\ debug_paths /\ TargetRemoved /\ start_node # end_node
    /\ Len(ret.arr) >= 4 /\ open_set # <<>> /\ i < max_attempts

ComponentCoords(n) == {Coord(m) : m \in Component(n)}

\* C10 as stated: for start and end in different components, whatever the
\* budget, SHORTEST mode returns null and FRONTIER mode a non-empty list that
\* holds every node of the start node's component.
C10_DisconnectedAnyBudget ==
    (Returned /\ ~Reachable(start_node, end_node)) =>
        IF debug_paths
        THEN ret.arr # <<>> /\ ComponentCoords(start_node) \subseteq Range(ret.arr)
        ELSE ret = JsNull

\* C10 amended: SHORTEST mode returns null; FRONTIER mode returns a non-empty
\* list of nodes of the start node's component, and all of them once the open
\* set is exhausted.
C10_DisconnectedExhausted ==
    (Returned /\ ~Reachable(start_node, end_node)) =>
        IF debug_paths
        THEN /\ ret.arr # <<>>
             /\ Range(ret.arr) \subseteq ComponentCoords(start_node)
             /\ open_set = <<>> => ComponentCoords(start_node) \subseteq Range(ret.arr)
             /\ RunSearch(data, SearchStart(data, start_node, end_node, FALSE, max_attempts)).ret
                    = JsNull
        ELSE ret = JsNull

C10_Witness ==
    /\ Returned /\ debug_paths /\ ~Reachable(start_node, end_node)
    /\ open_set = <<>> /\ Cardinality(Component(start_node)) >= 3
    /\ Range(ret.arr) = ComponentCoords(start_node)

-----------------------------------------------------------------------------
\* The order of the open set

\* the current f-score of member k (1-based) of an open set
ScoreAt(os, f, k) == MapGet(f, os[k])

Ascending(os, f) ==
    \A j, k \in 1..Len(os) : j < k => ScoreAt(os, f, j) <= ScoreAt(os, f, k)

\* C11 as stated: a node removed from the open set has, when it is removed, an
\* f-score less than or equal to that of every node that stays in the open set.
C11_RemovedHasLowestScore ==
    [][(pc = "loop" /\ removed' # removed) =>
           \A k \in 2..Len(open_set) :
               ScoreAt(open_set, f_score, 1) <= ScoreAt(open_set, f_score, k)]_vars

\* C12 as stated: during a plan call the open set is ordered ascending by the
\* current f-scores of its members.
C12_OpenSetAscending ==
    Searching => Ascending(open_set, f_score)

\* the member at the head of the open set is about to be removed
AtRemoval == pc = "loop" /\ LoopCondition(State)

\* the members other than the head that tie with it on the lowest f-score
\* of the open set (entries of other nodes)
TiedWithHead ==
    {k \in 2..Len(open_set) :
        /\ open_set[k] # open_set[1]
        /\ ScoreAt(open_set, f_score, k) = ScoreAt(open_set, f_score, 1)
        /\ \A j \in 1..Len(open_set) :
               ScoreAt(open_set, f_score, 1) <= ScoreAt(open_set, f_score, j)}

\* C13 as stated: of the members that tie on the lowest f-score, the one
\* inserted earlier is removed before the one inserted later.
C13_TiesRemovedFirstInFirstOut ==
    AtRemoval => \A k \in TiedWithHead : inserted[1] < inserted[k]

C13_Witness ==
    AtRemoval /\ TiedWithHead # {} /\ \A k \in TiedWithHead : inserted[1] > inserted[k]

\* the calls of _insertIntoOpenSet that expanding item makes from state s, in
\* order: per call the open set and the f-scores it is called with, and val
RECURSIVE InsertionCalls(_, _, _, _)
InsertionCalls(s, item, nbrs, k) ==
    IF k > Len(nbrs) THEN <<>>
    ELSE LET s2 == ExpandNeighbor(data, s, item, nbrs[k])
         IN (IF s2.open_set # s.open_set
             THEN <<[os |-> s.open_set, f |-> s2.f_score, val |-> nbrs[k],
                     result |-> s2.open_set]>>
             ELSE <<>>)
            \o InsertionCalls(s2, item, nbrs, k + 1)

\* the insertions of the iteration that starts in the current state
Insertions ==
    IF ~AtRemoval \/ Head(open_set) = end_node THEN <<>>
    ELSE InsertionCalls([State EXCEPT !.i = @ + 1, !.open_set = Tail(@),
                                      !.removed = Append(@, Head(open_set)),
                                      !.inserted = Tail(@)],
                        Head(open_set), _neighbors(data, Head(open_set)).list, 1)

\* where a call put the new member among the members os it found (os # <<>>)
NewIndex(c) ==
    CHOOSE q \in 1..Len(c.result) :
        SubSeq(c.result, 1, q - 1) \o SubSeq(c.result, q + 1, Len(c.result)) = c.os

\* the members of os (by index) that end up before the new member
BeforeNew(c) == 1..(NewIndex(c) - 1)

\* C13 amended: ties on the lowest f-score are not broken first-in first-out:
\* a node inserted with an f-score that no member of the open set is below
\* goes to the head of the open set, before the members inserted earlier with
\* the same f-score, and so is removed before them.
C13_TieOnLowestGoesFirst ==
    \A n \in 1..Len(Insertions) :
        LET c == Insertions[n]
        IN (/\ c.os # <<>>
            /\ \A k \in 1..Len(c.os) : MapGet(c.f, c.val) <= ScoreAt(c.os, c.f, k))
               => c.result = <<c.val>> \o c.os

\* C14 as stated: an inserted node is placed before every member already in
\* the open set whose f-score equals its own.
C14_InsertedBeforeEqualMembers ==
    \A n \in 1..Len(Insertions) :
        LET c == Insertions[n]
        IN c.os # <<>> =>
               \A k \in BeforeNew(c) :
                   c.os[k] # c.val => ScoreAt(c.os, c.f, k) # MapGet(c.f, c.val)

\* the first endpoint of the segment of a RoadPosition, read off the ways
FirstEndpoint(p) == data.ways[p.arr[1] + 1].nodes[p.arr[2] + 1]

\* the positions of the graph that lie on a segment starting at node n
PositionsAt(n) == {p \in RoadPositions(data) \ {JsNull} : FirstEndpoint(p) = n}

\* C15: plan reduces a position to the first endpoint of its segment and uses
\* nothing else of it: every call whose start and end positions reduce to the
\* same two nodes (same mode, same budget) ends the same way with the same result.
C15_OnlyFirstEndpointUsed ==
    Returned =>
        /\ PositionsAt(start_node) # {}
        /\ PositionsAt(end_node) # {}
        /\ \A p \in PositionsAt(start_node), q \in PositionsAt(end_node) :
               LET r == _planRoute(data, p, q, debug_paths, max_attempts)
               IN /\ r.start_node = start_node
                  /\ r.end_node = end_node
                  /\ r.exit = exit
                  /\ r.ret = ret

C15_Witness ==
    /\ Returned /\ exit = "path" /\ Len(ret.arr) >= 3
    /\ \E p, q \in PositionsAt(start_node) : p.arr[1] # q.arr[1]
    /\ \E p, q \in PositionsAt(end_node) : p.arr[1] = q.arr[1] /\ p.arr[3] # q.arr[3]

-----------------------------------------------------------------------------
\* The graph functions

NeighborSet(n) == Range(_neighbors(data, n).list)

\* node n occurs in no way
InNoWay(n) ==
    \A w \in 1..Len(data.ways) : \A k \in 1..Len(data.ways[w].nodes) : data.ways[w].nodes[k] # n

\* way w (1-based) holds some node id more than once
HasRepeatedNode(w) ==
    \E j, k \in 1..Len(data.ways[w].nodes) : j < k /\ data.ways[w].nodes[j] = data.ways[w].nodes[k]

\* C16: neighbors is symmetric on the graphs that preprocessing builds: if b is
\* among the neighbors of a, then a is among the neighbors of b; this includes
\* ways that hold a node id more than once.
C16_NeighborsSymmetric ==
    \A a \in NodeIds :
        ~_neighbors(data, a).threw =>
            \A b \in NeighborSet(a) :
                ~_neighbors(data, b).threw /\ a \in NeighborSet(b)

C16_Witness ==
    /\ pc = "loop"
    /\ \E n \in Range(removed) :
           /\ \E w \in 1..Len(data.ways) :
                  HasRepeatedNode(w) /\ \E k \in 1..Len(data.ways[w].nodes) : data.ways[w].nodes[k] = n
           /\ Cardinality(NeighborSet(n)) >= 2
           /\ \A b \in NeighborSet(n) : n \in NeighborSet(b)

\* the nodes next to an occurrence of n in a way, read off the ways
NextTo(n) == {m \in NodeIds : Adjacent(n, m)}

\* ways W1 = [N1, N, N2] and W2 = [N, N3] with N1, N2, N3 distinct
TwoWaysSharing(n) ==
    \E w1, w2 \in 1..Len(data.ways) :
        /\ Len(data.ways) = 2
        /\ Len(data.ways[w1].nodes) = 3 /\ data.ways[w1].nodes[2] = n
        /\ Len(data.ways[w2].nodes) = 2 /\ data.ways[w2].nodes[1] = n
        /\ Cardinality({data.ways[w1].nodes[1], data.ways[w1].nodes[3],
                        data.ways[w2].nodes[2], n}) = 4

\* C17: the neighbors of a node are, as a set, exactly the nodes right before
\* and right after each of its occurrences in the ways; with W1 = [N1, N, N2]
\* and W2 = [N, N3] the neighbors of N are N1, N2 and N3.
C17_NeighborsAreNextInWays ==
    \A n \in NodeIds :
        ~_neighbors(data, n).threw =>
            /\ NeighborSet(n) = NextTo(n)
            /\ \A w1, w2 \in 1..Len(data.ways) :
                   (/\ Len(data.ways) = 2 /\ w1 # w2
                    /\ Len(data.ways[w1].nodes) = 3 /\ data.ways[w1].nodes[2] = n
                    /\ Len(data.ways[w2].nodes) = 2 /\ data.ways[w2].nodes[1] = n)
                   => NeighborSet(n) = {data.ways[w1].nodes[1], data.ways[w1].nodes[3],
                                        data.ways[w2].nodes[2]}

C17_Witness ==
    /\ pc = "loop"
    /\ \E n \in Range(removed) :
           TwoWaysSharing(n) /\ Cardinality(NeighborSet(n)) = 3 /\ n \notin NeighborSet(n)

\* C18 as stated: for a node id that occurs in no way, neighbors raises no
\* error and returns no neighbor.
C18_AbsentNodeHasNoNeighbors ==
    \A n \in NodeIds :
        InNoWay(n) => (~_neighbors(data, n).threw /\ _neighbors(data, n).list = <<>>)

\* the (way id, position) pairs at which node n occurs, read off the ways
Occurrences(n) ==
    UNION {{<<w, k>> : k \in {j \in 0..(Len(Way(data, w).nodes) - 1) :
                                  Way(data, w).nodes[j + 1] = n}} :
              w \in 0..(Len(data.ways) - 1)}

IndexExact ==
    \A n \in NodeIds :
        LET e == data.node_to_way[n + 1]
        IN /\ Range(e.list) = Occurrences(n)
           /\ Len(e.list) = Cardinality(Occurrences(n))
           /\ e.defined <=> Occurrences(n) # {}

\* C19: after preprocessing the adjacency entries of every node are exactly
\* the (way id, position) pairs at which the node occurs, none missing, none
\* extra, none twice; and no step of the program changes the graph or the index.
C19_IndexExactAndReadOnly ==
    /\ [](IndexExact)
    /\ [][data' = data]_vars

C19_Witness ==
    /\ Returned /\ Len(removed) >= 2
    /\ \E n \in Range(removed) :
           /\ Len(data.node_to_way[n + 1].list) >= 3
           /\ \E w \in 1..Len(data.ways) : HasRepeatedNode(w) /\ data.ways[w].nodes[1] = n

\* C20 as stated: _distance gives the same value in both directions, and 0
\* from a node to itself.
C20_DistanceSymmetric ==
    \A a, b \in NodeIds :
        /\ _distance(Node(data, a), Node(data, b)) = _distance(Node(data, b), Node(data, a))
        /\ _distance(Node(data, a), Node(data, a)) = 0

-----------------------------------------------------------------------------
\* The way finder window: facts read off the window, not off the search

Grid == 0..(WAY_FINDER_RES - 1)

\* the samples of the window that hold a way id
NonEmpty == {q \in Grid \X Grid : _pixelFromBuffer(pixels, q[1], q[2]) # -1}

\* Chebyshev distance of sample q from the center of the window
Ring(q) ==
    LET dx == Abs(q[1] - WAY_FINDER_RES \div 2)
        dy == Abs(q[2] - WAY_FINDER_RES \div 2)
    IN IF dx > dy THEN dx ELSE dy

InnermostRing == {q \in NonEmpty : \A r \in NonEmpty : Ring(q) <= Ring(r)}

\* C22: the search returns a way id held by a sample at the smallest Chebyshev
\* distance from the center among the samples that hold one, and -1 only if
\* all 121 samples are empty.
C22_NearestRingWins ==
    found.done =>
        IF NonEmpty = {}
        THEN found.way_id = -1
        ELSE /\ found.way_id # -1
             /\ \E q \in InnermostRing : _pixelFromBuffer(pixels, q[1], q[2]) = found.way_id

C22_Witness ==
    /\ found.done /\ found.way_id # -1
    /\ \E q, r \in NonEmpty :
           /\ 0 < Ring(q) /\ Ring(q) < Ring(r)
           /\ _pixelFromBuffer(pixels, q[1], q[2]) # _pixelFromBuffer(pixels, r[1], r[2])

\* the first row of ring d of the window: y = center - d
FirstRow(d) == {q \in NonEmpty : Ring(q) = d /\ q[2] = WAY_FINDER_RES \div 2 - d}

\* C23 as stated: when the ring that decides holds samples in its top row, the
\* leftmost of these is returned, whatever else the ring holds.
C23_TopRowLeftToRightFirst ==
    (found.done /\ NonEmpty # {}) =>
        LET d == Ring(CHOOSE q \in InnermostRing : TRUE)
        IN FirstRow(d) # {} =>
               \E q \in FirstRow(d) :
                   /\ \A r \in FirstRow(d) : q[1] <= r[1]
                   /\ found.way_id = _pixelFromBuffer(pixels, q[1], q[2])

\* the place of sample q in the scan of its ring: the x loop reads (x, lower)
\* and then (x, higher) for x = lower .. higher, the y loop then reads
\* (lower, y) and (higher, y) for y = lower .. higher
ScanRank(q) ==
    LET c == WAY_FINDER_RES \div 2
        lower == c - Ring(q)
        higher == c + Ring(q)
    IN IF q[2] = lower THEN 2 * (q[1] - lower)
       ELSE IF q[2] = higher THEN 2 * (q[1] - lower) + 1
       ELSE 2 * (higher - lower + 1) + 2 * (q[2] - lower) + (IF q[1] = lower THEN 0 ELSE 1)

\* C23 amended: within the ring that decides, the samples are read column by
\* column from left to right, at each x first the one in row center - d and
\* then the one in row center + d, and after these the two side columns; the
\* way id returned is that of the first sample in this order that holds one.
C23_FixedScanOrder ==
    (found.done /\ NonEmpty # {}) =>
        \E q \in InnermostRing :
            /\ \A r \in InnermostRing : r # q => ScanRank(q) < ScanRank(r)
            /\ found.way_id = _pixelFromBuffer(pixels, q[1], q[2])

C23_Witness ==
    /\ found.done
    /\ \E q, r \in InnermostRing :
           /\ q[2] < r[2] /\ r[1] < q[1] /\ q \in FirstRow(Ring(q))
           /\ Ring(r) = r[2] - WAY_FINDER_RES \div 2
           /\ _pixelFromBuffer(pixels, q[1], q[2]) # _pixelFromBuffer(pixels, r[1], r[2])
           /\ found.way_id = _pixelFromBuffer(pixels, r[1], r[2])

-----------------------------------------------------------------------------
\* following came_from from n: TRUE when start_node is met within fuel steps
RECURSIVE LeadsToStart(_, _)
LeadsToStart(n, fuel) ==
    IF n = start_node THEN TRUE
    ELSE IF fuel = 0 \/ ~MapHas(came_from, n) THEN FALSE
    ELSE LeadsToStart(MapGet(came_from, n), fuel - 1)

\* the nodes met when came_from is followed from n for at least one step
RECURSIVE Ancestors(_, _)
Ancestors(n, fuel) ==
    IF fuel = 0 \/ ~MapHas(came_from, n) THEN {}
    ELSE {MapGet(came_from, n)} \cup Ancestors(MapGet(came_from, n), fuel - 1)

\* C30: at every step of a call of _planRoute the start node has no entry in
\* came_from, no node is its own ancestor in came_from (the map is acyclic),
\* and following came_from from a node that has an entry arrives at the start
\* node after at most as many steps as the map has entries; so the loop of
\* _reconstructPath ends.
C30_CameFromLeadsToStart ==
    (pc \in {"loop", "break", "done"} /\ exit # "null_args") =>
        /\ ~MapHas(came_from, start_node)
        /\ \A e \in Range(came_from) :
               /\ e[1] \notin Ancestors(e[1], Len(came_from))
               /\ LeadsToStart(e[1], Len(came_from))

\* a path has been returned whose target lies two steps or more from the
\* start node, after some node was put into the open set more than once
C30_Witness ==
    /\ pc = "done" /\ exit = "path"
    /\ Len(ret.arr) >= 3
    /\ MapHas(came_from, end_node)
    /\ MapGet(came_from, end_node) # start_node
    /\ Len(inserted) + Len(removed) > Len(g_score)

-----------------------------------------------------------------------------
\* the second endpoint of the segment of a RoadPosition, read off the ways
SecondEndpoint(p) == data.ways[p.arr[1] + 1].nodes[p.arr[2] + 2]

\* the positions the call in progress may have been made with: those that
\* line 416 reduces to its start node, and line 417 to its end node
StartPositions ==
    {p \in RoadPositions(data) \ {JsNull} :
        PlanEntry(data, p, p, debug_paths, max_attempts).start_node = start_node}

EndPositions ==
    {q \in RoadPositions(data) \ {JsNull} :
        PlanEntry(data, q, q, debug_paths, max_attempts).end_node = end_node}

\* the way-node nearest to the point a position denotes is node n
IsNearestNode(p, n) ==
    /\ p.arr[3] < 5 => n = FirstEndpoint(p)
    /\ p.arr[3] > 5 => n = SecondEndpoint(p)

\* C29 as stated: the node a start or end position is reduced to is the
\* way-node nearest to the point the position denotes: nodes[segment] for a
\* factor below 0.5 and nodes[segment + 1] for a factor above 0.5.
C29_ReducedToNearestNode ==
    (pc \in {"loop", "break", "done"} /\ exit # "null_args") =>
        /\ \A p \in StartPositions : IsNearestNode(p, start_node)
        /\ \A q \in EndPositions : IsNearestNode(q, end_node)

\* C29: the node a start or end position is reduced to is nodes[segment], the
\* first endpoint of its segment, whatever the factor; for a factor above 0.5
\* the nearer way-node nodes[segment + 1] is not taken.
C29_ReducedToFirstEndpoint ==
    (pc \in {"loop", "break", "done"} /\ exit # "null_args") =>
        /\ StartPositions = PositionsAt(start_node)
        /\ EndPositions = PositionsAt(end_node)

\* a path was returned for a call whose start and end may both have been
\* positions with a factor above 0.5 on segments with two distinct endpoints
C29_Witness ==
    /\ pc = "done" /\ exit = "path" /\ Len(ret.arr) >= 2
    /\ \E p \in StartPositions : p.arr[3] > 5 /\ SecondEndpoint(p) # start_node
    /\ \E q \in EndPositions : q.arr[3] > 5 /\ SecondEndpoint(q) # end_node

-----------------------------------------------------------------------------
\* C21: no call of _planRoute and no call of _findWayPosition changes the
\* graph: nodes, ways and node_to_way are after every handler what they were
\* before it, whatever the handler's inputs and whatever _planRoute returns.
C21_GraphUnchanged == [][data' = data]_vars

\* a pointer event has ended with a planned path of two points or more
C21_Witness ==
    /\ plan_call = "returned"
    /\ ~renderer.start_position.isNull
    /\ ~renderer.selected_way.isNull
    /\ ~renderer.planned_path.isNull
    /\ Len(renderer.planned_path.arr) >= 2

-----------------------------------------------------------------------------
\* ceil(log2(scale)): the least n with scale <= 2^n
QueriesBound(scale) == CHOOSE n \in 0..31 : scale <= 2 ^ n /\ (n = 0 \/ scale > 2 ^ (n - 1))

\* C24: a call of _findWayNearLongLat at Renderer.scale s (the query scale is
\* 50 s, the floor 50) queries the scales 50 s, 25 s, ... that are above the
\* floor, one after an empty window, at most ceil(log2(s)) of them and none
\* when s <= 1; it returns the position on the way of the first non-empty
\* window, and null exactly when every such scale was queried and every
\* window was empty.
C24_HalvesDownToFloor ==
    located.done =>
        LET log == located.log
            n == Len(log)
        IN /\ n <= QueriesBound(located.scale)
           /\ located.scale <= 1 => n = 0
           /\ n > 0 => log[1][1] = located.scale * 50 * 4
           /\ \A j \in 1..n : log[j][1] > 50 * 4
           /\ \A j \in 1..(n - 1) : log[j][2] = -1 /\ 2 * log[j + 1][1] = log[j][1]
           /\ located.ret.isNull <=> (\A j \in 1..n : log[j][2] = -1)
           /\ located.ret.isNull => n = QueriesBound(located.scale)
           /\ ~located.ret.isNull =>
                  located.ret.arr =
                      <<log[n][2]>> \o _findWayPosition(data, log[n][2], located.point)

\* the third query of a call was the first with a way in its window
C24_Witness ==
    /\ located.done
    /\ Len(located.log) = 3
    /\ ~located.ret.isNull
    /\ located.ret.arr[1] = located.log[3][2]

-----------------------------------------------------------------------------
\* the way a call of _findWayNearLongLat has found, and its samples
LocatedWay == Way(data, located.ret.arr[1]).nodes

WaySamples == (0..(Len(LocatedWay) - 2)) \X (0..10)

\* dist_2 of sample q of the located way from the point of the call
DistOf(q) ==
    SampleDist2(Node(data, LocatedWay[q[1] + 1]), Node(data, LocatedWay[q[1] + 2]),
                q[2], located.point)

\* C25: for a way of two nodes or more the returned segment is one of
\* 0..len-2 and the factor one of the 11 samples; no sample of the way is
\* strictly closer to the point, and every equally close sample has a higher
\* segment, or the same segment and a higher factor.
C25_FirstClosestSample ==
    (located.done /\ ~located.ret.isNull /\ Len(LocatedWay) >= 2) =>
        /\ Len(located.ret.arr) = 3
        /\ <<located.ret.arr[2], located.ret.arr[3]>> \in WaySamples
        /\ LET best == <<located.ret.arr[2], located.ret.arr[3]>>
           IN \A q \in WaySamples :
                  /\ ~Dist2Less(DistOf(q), DistOf(best))
                  /\ (DistOf(q) = DistOf(best) /\ q # best) =>
                         \/ best[1] < q[1]
                         \/ best[1] = q[1] /\ best[2] < q[2]

\* a sample of a later segment is as close as the returned one
C25_Witness ==
    /\ located.done /\ ~located.ret.isNull /\ Len(LocatedWay) >= 3
    /\ \E q \in WaySamples :
           /\ q[1] > located.ret.arr[2]
           /\ DistOf(q) = DistOf(<<located.ret.arr[2], located.ret.arr[3]>>)

-----------------------------------------------------------------------------
-----------------------------------------------------------------------------
\* the coordinate of node n, in the form _wayPositionToLongLat returns
NodeLongLat(n) ==
    <<[v |-> Node(data, n).long * 10, e |-> 0], [v |-> Node(data, n).lat * 10, e |-> 0]>>

\* C28: when the point of a call is the coordinate of a node of the way the
\* call has found, the coordinate of the returned position is that coordinate.
C28_NodeRoundTrip ==
    (located.done /\ ~located.ret.isNull /\ Len(located.ret.arr) = 3) =>
        \A j \in 1..Len(LocatedWay) :
            NodeLongLat(LocatedWay[j]) =
                    <<[v |-> located.point[1], e |-> 0], [v |-> located.point[2], e |-> 0]>>
                => _wayPositionToLongLat(data, located.ret) = NodeLongLat(LocatedWay[j])

-----------------------------------------------------------------------------
\* every way has two nodes or more, and every node id of a way has a node
WellFormed(d) ==
    \A w \in 1..Len(d.ways) :
        /\ Len(d.ways[w].nodes) >= 2
        /\ \A j \in 1..Len(d.ways[w].nodes) : d.ways[w].nodes[j] < Len(d.nodes)

\* C27: data with a way of fewer than 2 nodes, or with a way that names a
\* node that is not in the node set, is never constructed: init fails on it,
\* and no call of _planRoute is made on it.
C27_MalformedNeverConstructed ==
    ~WellFormed(data) => (phase # "constructed" /\ pc = "idle")

-----------------------------------------------------------------------------
\* the nodes that have an entry in a map
Keys(m) == {m[j][1] : j \in 1..Len(m)}

\* C31: at every step of a call of _planRoute the g-score of the start node
\* is 0; every node that has an f-score has a g-score, and its f-score is its
\* g-score plus _distance from it to the end node; and the nodes that have an
\* f-score are the start node and the nodes that have an entry in came_from.
C31_ScoresConsistent ==
    Searching =>
        /\ MapHas(g_score, start_node)
        /\ MapGet(g_score, start_node) = 0
        /\ \A n \in Keys(f_score) :
               /\ MapHas(g_score, n)
               /\ MapGet(f_score, n) =
                      MapGet(g_score, n) + _distance(Node(data, n), Node(data, end_node))
        /\ Keys(f_score) = {start_node} \cup Keys(came_from)

\* three nodes or more have an f-score, the start node is not the end node,
\* and more entries were put into the open set than nodes have an f-score
C31_Witness ==
    /\ Searching
    /\ start_node # end_node
    /\ Len(f_score) >= 3
    /\ Len(inserted) + Len(removed) > Len(f_score)

-----------------------------------------------------------------------------
\* the iteration that starts in the current state expands the head of the
\* open set: the state after the shift, and the neighbors in loop order
Expanding == AtRemoval /\ Head(open_set) # end_node

Dequeued ==
    [State EXCEPT !.i = @ + 1, !.open_set = Tail(@),
                  !.removed = Append(@, Head(open_set)), !.inserted = Tail(@)]

NeighborList == _neighbors(data, Head(open_set)).list

\* the search state before the k-th neighbor of the list is looked at
BeforeNeighbor(k) ==
    ExpandAll(data, Dequeued, Head(open_set), SubSeq(NeighborList, 1, k - 1), 1)

\* g_score.get(n), a node without entry counting as Infinity
GScoreOf(g, n) == IF MapHas(g, n) THEN MapGet(g, n) ELSE Infinity

EntryOf(m, n) == IF MapHas(m, n) THEN <<MapGet(m, n)>> ELSE <<>>

\* the tentative g-score of the k-th neighbor
Tentative(k) ==
    MapGet(BeforeNeighbor(k).g_score, Head(open_set))
        + _distance(Node(data, Head(open_set)), Node(data, NeighborList[k]))

Improves(k) == Tentative(k) < GScoreOf(BeforeNeighbor(k).g_score, NeighborList[k])

\* C32: while a node is expanded, the step for one neighbor changes came_from,
\* g_score, f_score or the open set only when the tentative g-score is
\* strictly lower than the neighbor's g-score (Infinity without entry); it
\* then sets the neighbor's came_from to the expanded node, its g-score to
\* the tentative score, and inserts it once; the entries of the other nodes
\* stay.  Over a whole iteration no node's g-score increases.
C32_ChangeOnlyOnImprovement ==
    [][(Expanding =>
          /\ \A k \in 1..Len(NeighborList) :
               LET before == BeforeNeighbor(k)
                   after == BeforeNeighbor(k + 1)
                   n == NeighborList[k]
               IN /\ ~Improves(k) =>
                        /\ after.came_from = before.came_from
                        /\ after.g_score = before.g_score
                        /\ after.f_score = before.f_score
                        /\ after.open_set = before.open_set
                  /\ Improves(k) =>
                        /\ MapGet(after.came_from, n) = Head(open_set)
                        /\ MapGet(after.g_score, n) = Tentative(k)
                        /\ Len(SelectSeq(after.open_set, LAMBDA m : m = n))
                               > Len(SelectSeq(before.open_set, LAMBDA m : m = n))
                  /\ \A m \in NodeIds \ {n} :
                        /\ EntryOf(after.came_from, m) = EntryOf(before.came_from, m)
                        /\ EntryOf(after.g_score, m) = EntryOf(before.g_score, m)
                        /\ EntryOf(after.f_score, m) = EntryOf(before.f_score, m)
          /\ State' = BeforeNeighbor(Len(NeighborList) + 1))
       /\ ((pc = "loop" /\ pc' # "idle") =>
              \A n \in NodeIds : GScoreOf(g_score', n) <= GScoreOf(g_score, n))]_vars

\* a node is about to be expanded of whose neighbors one that has a g-score
\* gets a lower one, and one does not (its tentative g-score is not lower)
C32_Witness ==
    /\ Expanding
    /\ \E k \in 1..Len(NeighborList) :
           Improves(k) /\ MapHas(BeforeNeighbor(k).g_score, NeighborList[k])
    /\ \E k \in 1..Len(NeighborList) : ~Improves(k)

-----------------------------------------------------------------------------
\* C33: in FRONTIER mode (debug_paths true), the iteration that takes the end
\* node from the open set breaks out of the loop: the end node's neighbors
\* are not looked at, came_from, g_score and f_score stay as they are, and
\* the next step returns the frontier, the coordinates of the nodes that have
\* an f-score, the end node's among them, not a path.
C33_FrontierStopsAtTarget ==
    [][/\ (AtRemoval /\ Head(open_set) = end_node /\ debug_paths = TRUE) =>
              /\ pc' = "break"
              /\ exit' = "none"
              /\ open_set' = Tail(open_set)
              /\ came_from' = came_from
              /\ g_score' = g_score
              /\ f_score' = f_score
       /\ pc = "break" =>
              /\ pc' = "done"
              /\ exit' = "frontier"
              /\ came_from' = came_from
              /\ g_score' = g_score
              /\ f_score' = f_score
              /\ ret' = Arr(ScoredCoords)
              /\ Coord(end_node) \in Range(ret'.arr)]_vars

\* a FRONTIER call has returned after it took the end node from the open set
\* with budget left, nodes still open, and a neighbor of the end node that
\* never got an f-score
C33_Witness ==
    /\ pc = "done" /\ exit = "frontier"
    /\ TargetRemoved
    /\ i < max_attempts
    /\ open_set # <<>>
    /\ \E m \in NeighborSet(end_node) : ~MapHas(f_score, m)

-----------------------------------------------------------------------------
\* C34 as stated: a call of _insertIntoOpenSet makes the open set longer by
\* exactly one entry, and called with an empty open set it leaves the open
\* set holding the inserted node once and nothing else.
C34_InsertionAddsOne ==
    \A n \in 1..Len(Insertions) :
        LET c == Insertions[n]
        IN /\ Len(c.result) = Len(c.os) + 1
           /\ c.os = <<>> => c.result = <<c.val>>

-----------------------------------------------------------------------------
\* a graph without nodes and ways: every read of a way or a node of it fails
NoGraph == [nodes |-> <<>>, ways |-> <<>>, node_to_way |-> <<>>]

\* C35: _planRoute called with a null start or a null end returns null, in
\* SHORTEST and in FRONTIER mode, before anything is read: no search state is
\* set up, and the result is the same for a graph without nodes and ways and
\* for every value of "max-path-nodes".
C35_NullArgumentReturnsNull ==
    (pc = "done" /\ exit = "null_args") =>
        /\ ret = JsNull
        /\ open_set = <<>> /\ g_score = <<>> /\ f_score = <<>> /\ came_from = <<>>
        /\ i = 0 /\ removed = <<>>
        /\ \A start, end \in RoadPositions(data) :
               (start.isNull \/ end.isNull) =>
                   \A budget \in Budgets :
                       LET r == _planRoute(data, start, end, debug_paths, budget)
                       IN /\ r.exit = "null_args"
                          /\ r.ret = JsNull
                          /\ r = _planRoute(NoGraph, start, end, debug_paths, 0)
        /\ \A start, end \in RoadPositions(data) :
               (~start.isNull /\ ~end.isNull) =>
                   _planRoute(data, start, end, debug_paths, 0).exit # "null_args"

\* a FRONTIER call has returned at the null check
C35_Witness ==
    pc = "done" /\ exit = "null_args" /\ debug_paths = TRUE /\ ret = JsNull

-----------------------------------------------------------------------------
\* C36: in every state of the Renderer that pointer moves, set-start clicks,
\* clear-route clicks, debug toggles and frames lead to, a planned_path that
\* is not null comes with a start_position that is not null; and a
\* clear-route click leaves both null.
C36_PathImpliesStart ==
    /\ [](~renderer.planned_path.isNull => ~renderer.start_position.isNull)
    /\ [][_clearStartPos =>
             renderer'.start_position.isNull /\ renderer'.planned_path.isNull]_vars

\* a frontier of two points or more is planned and the start is set, and the
\* last pointer move ended in the exception of _planRoute, which left the
\* planned path in place
C36_Witness ==
    /\ ~renderer.planned_path.isNull
    /\ ~renderer.start_position.isNull
    /\ Len(renderer.planned_path.arr) >= 2
    /\ renderer.debug_paths = TRUE
    /\ plan_call = "TypeError"

-----------------------------------------------------------------------------
\* the node _planRoute reduces the current start_position to
StartPositionNode ==
    Way(data, renderer.start_position.arr[1]).nodes[renderer.start_position.arr[2] + 1]

\* C37 as stated: a planned_path that holds a path planned in SHORTEST mode
\* was planned from the current start_position: its last coordinate is the
\* coordinate of the node that start_position reduces to.
C37_PathFromCurrentStart ==
    (~renderer.planned_path.isNull /\ planned_mode = "SHORTEST") =>
        /\ ~renderer.start_position.isNull
        /\ Len(renderer.start_position.arr) = 3
        /\ Last(renderer.planned_path.arr) = _nodeIdToLongLat(data, StartPositionNode)

-----------------------------------------------------------------------------
\* C38 as stated: when render_map draws a planned_path, the draw type it
\* takes from the current debug_paths matches the mode the path was planned
\* in: points for FRONTIER, a line strip for SHORTEST.
C38_DrawTypeMatchesMode ==
    [][(render_map /\ DrawsPath(renderer)) =>
           draw_type(renderer) = (IF planned_mode = "FRONTIER" THEN "POINTS" ELSE "LINE_STRIP")]_vars

-----------------------------------------------------------------------------
CachedIds == {down_pointers[j].pointerId : j \in 1..Len(down_pointers)}

\* C39 as stated: down_pointers holds exactly the pointers that received a
\* pointerdown with no later pointerup, each pointer at most once; and a
\* pointermove from a pointer that is not down adds no entry and raises no
\* error.
C39_DownPointersArePressed ==
    /\ CachedIds = pressed
    /\ Len(down_pointers) = Cardinality(pressed)
    /\ pointer_call.stray_move => ~pointer_call.threw

====
